---- MODULE Spec2Model ----
(***************************************************************************)
(* Verification model of the skydive on-demand capture orchestrator        *)
(* (flow/ondemand/client/client.go) and of the TID mapper                  *)
(* (topology/tid_mapper.go, carried in traversal.go lines 1243-1371).      *)
(***************************************************************************)
EXTENDS Naturals, Integers, Sequences, FiniteSets, Bags, TLC

(***************************************************************************)
(* Bounds and input domains of the orchestrator model.                     *)
(***************************************************************************)
\* Most registerProbes goroutines alive at once.
MaxTasks == 1

\* Node identifiers and capture UUIDs the environment draws from.
Nodes == {1, 2}
Captures == {1}

\* The Gremlin queries a capture may carry: "V" resolves to nodes
\* (G.V()...), "SP" resolves to paths (...ShortestPathTo(...)).
Queries == {"V", "SP"}
NoQuery == "none"
NoCapture == 0

AddActions == {"init", "create", "set", "update"}
DelActions == {"expire", "delete"}

VARIABLES
    gnodes,        \* o.graph: identifiers of the nodes of the graph
    captureID,     \* o.graph: metadata "Capture/ID" of each node (NoCapture = key absent)
    registry,      \* the capture registry behind o.captureHandler (external store)
    captures,      \* o.captures: UUID -> capture (its GremlinQuery), NoQuery = no entry
    isMaster,      \* o.elector.IsMaster()
    tasks,         \* bag of running registerProbes goroutines
    pendingStart,  \* CaptureStart (node, capture) delivered to agents, not yet handled by them
    failed,        \* (node, capture) whose CaptureStart was not delivered and that no
                   \* delivered CaptureStart has followed or is pending for (history)
    out,           \* messages handed to o.wsServer by the last step (history)
    last,          \* what the last step did (history)
    hist,          \* whether failed and last are recorded in this behaviour
    tg,            \* the graphs the TID mappers listen to, one per run
    trav,          \* the query being evaluated by the traversal engine
    threads        \* o.RWMutex, the lock of o.graph and the position of each handler

vars == <<gnodes, captureID, registry, captures, isMaster, tasks,
          pendingStart, failed, out, last, hist, tg, trav, threads>>

(***************************************************************************)
(* Helpers on sequences.                                                   *)
(***************************************************************************)
RECURSIVE SetToSeq(_)
\* The elements of a set of numbers in ascending order.
SetToSeq(S) ==
    IF S = {} THEN <<>>
    ELSE LET m == CHOOSE x \in S : \A y \in S : x <= y
         IN <<m>> \o SetToSeq(S \ {m})

RECURSIVE Flatten(_)
Flatten(ss) == IF ss = <<>> THEN <<>> ELSE Head(ss) \o Flatten(Tail(ss))

SeqRange(s) == {s[k] : k \in DOMAIN s}

Occurrences(s, x) == Cardinality({k \in DOMAIN s : s[k] = x})

(***************************************************************************)
(* The traversal engine (package traversal): values, predicates, filters.  *)
(***************************************************************************)
\* Most steps chained in one query.
MaxSteps == 4

\* A Go interface{} value: a string, an int64, a predicate built by Ne(),
\* Lt(), ..., Outside(), Within(), Without(), or nothing (nil, missing key).
\* list holds the arguments of a predicate.
Val(m, s, i, list) == [m |-> m, s |-> s, i |-> i, list |-> list]
Nil == Val("nil", "", 0, <<>>)
Str(x) == Val("str", x, 0, <<>>)
Int64(x) == Val("int", "", x, <<>>)

Ne(v) == Val("Ne", "", 0, <<v>>)
Lt(v) == Val("Lt", "", 0, <<v>>)
Gt(v) == Val("Gt", "", 0, <<v>>)
Lte(v) == Val("Lte", "", 0, <<v>>)
Gte(v) == Val("Gte", "", 0, <<v>>)
Inside(from, to) == Val("Inside", "", 0, <<from, to>>)
Outside(from, to) == Val("Outside", "", 0, <<from, to>>)
Between(from, to) == Val("Between", "", 0, <<from, to>>)
Within(s) == Val("Within", "", 0, s)
Without(s) == Val("Without", "", 0, s)

NoError == ""

\* common.ToInt64(v): the integer of an integer value, an error for
\* anything else.
ToInt64(v) ==
    IF v.m = "int" THEN [i |-> v.i, err |-> NoError]
    ELSE [i |-> 0, err |-> "not an integer"]

\* A filters.Filter: a term, a comparison, or a combination of filters.
Filter(op, key, val, subs) == [op |-> op, key |-> key, val |-> val, subs |-> subs]
NoFilter == Filter("none", "", Nil, <<>>)
NewTermStringFilter(k, s) == Filter("TermString", k, Str(s), <<>>)
NewTermInt64Filter(k, i) == Filter("TermInt64", k, Int64(i), <<>>)
NewLtInt64Filter(k, i) == Filter("Lt", k, Int64(i), <<>>)
NewGtInt64Filter(k, i) == Filter("Gt", k, Int64(i), <<>>)
NewLteInt64Filter(k, i) == Filter("Lte", k, Int64(i), <<>>)
NewGteInt64Filter(k, i) == Filter("Gte", k, Int64(i), <<>>)
NewNotFilter(f) == Filter("Not", "", Nil, <<f>>)
NewAndFilter(fs) == Filter("And", "", Nil, fs)
NewOrFilter(fs) == Filter("Or", "", Nil, fs)

\* The result of a function returning (*filters.Filter, error).
FilterOk(f) == [f |-> f, err |-> NoError]
FilterErr(e) == [f |-> NoFilter, err |-> e]

\* The first error among those of a list of results, NoError if none.
FirstError(rs) ==
    LET bad == {k \in DOMAIN rs : rs[k].err # NoError}
    IN IF bad = {} THEN NoError
       ELSE rs[CHOOSE k \in bad : \A m \in bad : k <= m].err

\* The loop of ParamToFilter over the list of Within(...).
WithinTerm(k, val) ==
    IF val.m = "str" THEN FilterOk(NewTermStringFilter(k, val.s))
    ELSE IF ToInt64(val).err # NoError THEN FilterErr(ToInt64(val).err)
    ELSE FilterOk(NewTermInt64Filter(k, ToInt64(val).i))

\* The comparison cases of ParamToFilter: the argument must be an int64;
\* f is the filter built from it.
CompareFilter(v, f, msg) ==
    IF ToInt64(v.list[1]).err # NoError THEN FilterErr(msg) ELSE FilterOk(f)

\* The interval cases of ParamToFilter: both bounds must be int64; the
\* filter is filters.NewAndFilter of the two comparisons.
IntervalFilter(v, fFrom, fTo, msg) ==
    IF ToInt64(v.list[1]).err # NoError \/ ToInt64(v.list[2]).err # NoError
    THEN FilterErr(msg)
    ELSE FilterOk(NewAndFilter(<<fFrom, fTo>>))

\* ParamToFilter(k, v): the type switch on v.  A value of a type without
\* a case (Without among them) goes to the default case, the int64
\* coercion.
ParamToFilter(k, v) ==
    CASE v.m = "Ne" ->
            IF v.list[1].m = "str"
            THEN FilterOk(NewNotFilter(NewTermStringFilter(k, v.list[1].s)))
            ELSE IF ToInt64(v.list[1]).err # NoError
                 THEN FilterErr(ToInt64(v.list[1]).err)
                 ELSE FilterOk(NewNotFilter(NewTermInt64Filter(k, ToInt64(v.list[1]).i)))
      [] v.m = "Lt" ->
            CompareFilter(v, NewLtInt64Filter(k, ToInt64(v.list[1]).i),
                          "LT values should be of int64 type")
      [] v.m = "Gt" ->
            CompareFilter(v, NewGtInt64Filter(k, ToInt64(v.list[1]).i),
                          "GT values should be of int64 type")
      [] v.m = "Gte" ->
            CompareFilter(v, NewGteInt64Filter(k, ToInt64(v.list[1]).i),
                          "GTE values should be of int64 type")
      [] v.m = "Lte" ->
            CompareFilter(v, NewLteInt64Filter(k, ToInt64(v.list[1]).i),
                          "LTE values should be of int64 type")
      [] v.m = "Inside" ->
            IntervalFilter(v, NewGtInt64Filter(k, ToInt64(v.list[1]).i),
                           NewLtInt64Filter(k, ToInt64(v.list[2]).i),
                           "Inside values should be of int64 type")
      [] v.m = "Outside" ->
            IntervalFilter(v, NewLtInt64Filter(k, ToInt64(v.list[1]).i),
                           NewGtInt64Filter(k, ToInt64(v.list[2]).i),
                           "Outside values should be of int64 type")
      [] v.m = "Between" ->
            IntervalFilter(v, NewGteInt64Filter(k, ToInt64(v.list[1]).i),
                           NewLtInt64Filter(k, ToInt64(v.list[2]).i),
                           "Between values should be of int64 type")
      [] v.m = "Within" ->
            LET terms == [x \in DOMAIN v.list |-> WithinTerm(k, v.list[x])]
            IN IF FirstError(terms) # NoError THEN FilterErr(FirstError(terms))
               ELSE FilterOk(NewOrFilter([x \in DOMAIN terms |-> terms[x].f]))
      [] v.m = "str" -> FilterOk(NewTermStringFilter(k, v.s))
      [] v.m = "int" -> FilterOk(NewTermInt64Filter(k, v.i))
      [] OTHER ->
            IF ToInt64(v).err # NoError THEN FilterErr(ToInt64(v).err)
            ELSE FilterOk(NewTermInt64Filter(k, ToInt64(v).i))

\* The pairs (key, value) of an argument list k1, v1, k2, v2, ...
Pairs(s) == [x \in 1..(Len(s) \div 2) |-> <<s[2 * x - 1], s[2 * x]>>]

\* The loop shared by ParamsToFilter and SliceToMetadata: one filter per
\* pair, an error for a key that is not a string or a value that has no
\* filter; the first error ends the loop.
PairFilter(p) ==
    IF p[1].m # "str" THEN FilterErr("Keys should be of string type")
    ELSE ParamToFilter(p[1].s, p[2])

\* ParamsToFilter(params...): the conjunction of the filters of the pairs.
ParamsToFilter(params) ==
    IF Len(params) % 2 # 0 THEN FilterErr("Slice must be defined by pair k,v")
    ELSE LET rs == [x \in DOMAIN Pairs(params) |-> PairFilter(Pairs(params)[x])]
         IN IF FirstError(rs) # NoError THEN FilterErr(FirstError(rs))
            ELSE FilterOk(NewAndFilter([x \in DOMAIN rs |-> rs[x].f]))

\* SliceToMetadata(s...): a graph.Metadata holding one filter per key,
\* kept here as the list of the filters.
SliceToMetadata(s) ==
    IF Len(s) % 2 # 0 THEN [m |-> <<>>, err |-> "slice must be defined by pair k,v"]
    ELSE LET rs == [x \in DOMAIN Pairs(s) |-> PairFilter(Pairs(s)[x])]
         IN IF FirstError(rs) # NoError THEN [m |-> <<>>, err |-> FirstError(rs)]
            ELSE [m |-> [x \in DOMAIN rs |-> rs[x].f], err |-> NoError]

RECURSIVE Eval(_, _)
\* filter.Eval(element): md is the metadata of the element, a function
\* from keys to values (Nil for a missing key).  A term or a comparison
\* on a missing key or on a value of another type is false.
Eval(f, md) ==
    LET x == IF f.key \in DOMAIN md THEN md[f.key] ELSE Nil IN
    CASE f.op = "TermString" -> x.m = "str" /\ x.s = f.val.s
      [] f.op = "TermInt64" -> x.m = "int" /\ x.i = f.val.i
      [] f.op = "Lt" -> x.m = "int" /\ x.i < f.val.i
      [] f.op = "Gt" -> x.m = "int" /\ x.i > f.val.i
      [] f.op = "Lte" -> x.m = "int" /\ x.i <= f.val.i
      [] f.op = "Gte" -> x.m = "int" /\ x.i >= f.val.i
      [] f.op = "Not" -> ~Eval(f.subs[1], md)
      [] f.op = "And" -> \A k \in DOMAIN f.subs : Eval(f.subs[k], md)
      [] f.op = "Or" -> \E k \in DOMAIN f.subs : Eval(f.subs[k], md)
      [] OTHER -> FALSE

\* element.MatchMetadata(m): every filter of the metadata accepts it.
MatchMetadata(md, m) == \A k \in DOMAIN m : Eval(m[k], md)

(***************************************************************************)
(* The graph the queries run on (package graph).                           *)
(***************************************************************************)
\* The graphs a query may be given; NilGraph is the nil *graph.Graph.
\* g1 mixes node types and relations; g2 and g3 are three hosts fully
\* connected by layer2 edges, enumerated in two different orders.
Graphs == {"g1", "g2", "g3"}
NilGraph == "nil"
Triangles == {"g2", "g3"}

\* g.GetNodes() and g.GetEdges() in the order the store returns them.
NodesOf(g) == <<"a", "b", "c">>
EdgesOf(g) == IF g = "g3" THEN <<"e3", "e2", "e1">> ELSE <<"e1", "e2", "e3">>

\* n.Metadata(): in g1 two hosts with the same Name and a netns without
\* Name; in the triangles three hosts.
NodeMetadata(g, n) ==
    IF g \in Triangles
    THEN [Type |-> Str("host"),
          Name |-> Str(CASE n = "a" -> "n1" [] n = "b" -> "n2" [] OTHER -> "n3")]
    ELSE CASE n = "a" -> [Type |-> Str("host"), Name |-> Str("n1"), MTU |-> Int64(1)]
           [] n = "b" -> [Type |-> Str("host"), Name |-> Str("n1"), MTU |-> Int64(2)]
           [] OTHER -> [Type |-> Str("netns"), MTU |-> Int64(3)]

\* e.Metadata(), e.GetParent(), e.GetChild()
EdgeMetadata(g, e) ==
    IF g \in Triangles THEN [RelationType |-> Str("layer2")]
    ELSE CASE e = "e1" -> [RelationType |-> Str("ownership"), Name |-> Str("l")]
           [] e = "e2" -> [RelationType |-> Str("layer2")]
           [] OTHER -> [RelationType |-> Str("layer2"), Name |-> Str("l")]
GetParent(g, e) ==
    IF g = "g3" THEN (CASE e = "e1" -> "b" [] e = "e2" -> "c" [] OTHER -> "c")
    ELSE (CASE e = "e1" -> "a" [] e = "e2" -> "b" [] OTHER -> "a")
GetChild(g, e) ==
    IF g = "g3" THEN (CASE e = "e1" -> "a" [] e = "e2" -> "b" [] OTHER -> "a")
    ELSE (CASE e = "e1" -> "b" [] e = "e2" -> "c" [] OTHER -> "c")

\* element.GetField(key): the value, Nil when the key is missing.
GetField(md, key) == IF key \in DOMAIN md THEN md[key] ELSE Nil

RECURSIVE Select(_, _)
\* The elements of a sequence that belong to a set, in order.
Select(s, keep) ==
    IF s = <<>> THEN <<>>
    ELSE (IF Head(s) \in keep THEN <<Head(s)>> ELSE <<>>) \o Select(Tail(s), keep)

\* g.GetNode(id): the node, NilGraph-like "nil" when there is none.
Graph_GetNode(g, id) == IF id \in SeqRange(NodesOf(g)) THEN id ELSE "nil"

\* g.GetNodes(m): the nodes whose metadata matches m.
Graph_GetNodes(g, m) ==
    Select(NodesOf(g), {n \in SeqRange(NodesOf(g)) : MatchMetadata(NodeMetadata(g, n), m)})

\* g.GetNodeEdges(n, m): the edges n is an end of, matching m.
Graph_GetNodeEdges(g, n, m) ==
    Select(EdgesOf(g), {e \in SeqRange(EdgesOf(g)) :
                          /\ n \in {GetParent(g, e), GetChild(g, e)}
                          /\ MatchMetadata(EdgeMetadata(g, e), m)})

\* g.GetEdgeNodes(e, pm, cm): the parent of e if it matches pm and the
\* child of e if it matches cm.
Graph_GetEdgeNodes(g, e, pm, cm) ==
    [parents |-> IF MatchMetadata(NodeMetadata(g, GetParent(g, e)), pm)
                 THEN <<GetParent(g, e)>> ELSE <<>>,
     children |-> IF MatchMetadata(NodeMetadata(g, GetChild(g, e)), cm)
                  THEN <<GetChild(g, e)>> ELSE <<>>]

\* g.LookupChildren(n, m, em): the children of n matching m, reached by
\* the edges from n matching em, in edge order.
Graph_LookupChildren(g, n, m, em) ==
    LET es == Select(EdgesOf(g), {e \in SeqRange(EdgesOf(g)) :
                                    /\ GetParent(g, e) = n
                                    /\ MatchMetadata(EdgeMetadata(g, e), em)
                                    /\ MatchMetadata(NodeMetadata(g, GetChild(g, e)), m)})
    IN [k \in DOMAIN es |-> GetChild(g, es[k])]

\* g.LookupParents(n, m, em): the parents of n matching m.
Graph_LookupParents(g, n, m, em) ==
    LET es == Select(EdgesOf(g), {e \in SeqRange(EdgesOf(g)) :
                                    /\ GetChild(g, e) = n
                                    /\ MatchMetadata(EdgeMetadata(g, e), em)
                                    /\ MatchMetadata(NodeMetadata(g, GetParent(g, e)), m)})
    IN [k \in DOMAIN es |-> GetParent(g, es[k])]

\* Two nodes joined by an edge matching em, whatever its direction.
Adjacent(g, x, y, em) ==
    \E e \in SeqRange(EdgesOf(g)) :
       /\ {GetParent(g, e), GetChild(g, e)} = {x, y}
       /\ MatchMetadata(EdgeMetadata(g, e), em)

\* g.LookupShortestPath(n, m, em): a shortest list of nodes from n to a
\* node matching m along edges matching em; empty when there is none.
Graph_LookupShortestPath(g, n, m, em) ==
    LET ns == SeqRange(NodesOf(g))
        walks == {w \in UNION {[1..l -> ns] : l \in 1..Cardinality(ns)} :
                    /\ w[1] = n
                    /\ MatchMetadata(NodeMetadata(g, w[Len(w)]), m)
                    /\ \A k \in 1..(Len(w) - 1) : Adjacent(g, w[k], w[k + 1], em)}
    IN IF walks = {} THEN <<>>
       ELSE CHOOSE w \in walks : \A v \in walks : Len(w) <= Len(v)

(***************************************************************************)
(* Steps of the traversal.                                                 *)
(***************************************************************************)
\* GraphStepContext.PaginationRange: nil, or the pair [from, to].
NoRange == [set |-> FALSE, from |-> 0, to |-> 0]
PaginationRange(from, to) == [set |-> TRUE, from |-> from, to |-> to]

\* common.Iterator: r.Iterator() counts from 0 and admits the positions
\* from <= at < to; without a range it admits everything (to = -1).
Iterator(r) ==
    IF r.set THEN [at |-> 0, from |-> r.from, to |-> r.to]
    ELSE [at |-> 0, from |-> 0, to |-> -1]
Done(it) == it.to # -1 /\ it.at >= it.to

RECURSIVE Admit(_, _)
\* The loop "if it.Done() break; else if it.Next() append" over the
\* candidates: it.Next() counts the candidate and admits it from `from` on.
Admit(cands, it) ==
    IF cands = <<>> \/ Done(it) THEN <<>>
    ELSE (IF it.at >= it.from THEN <<Head(cands)>> ELSE <<>>)
           \o Admit(Tail(cands), [it EXCEPT !.at = @ + 1])

\* The loop "if it.Done() break; else append": it.Next() is never called,
\* so the iterator never advances.
AdmitUncounted(cands, it) == IF Done(it) THEN <<>> ELSE cands

\* A *GraphTraversal as the steps hold it: the graph and the step context;
\* NilTraversal is the nil pointer of a step built with its error only.
Traversal(g, ctx) == [Graph |-> g, ctx |-> ctx]
NilTraversal == Traversal(NilGraph, NoRange)

\* A step: kind G (GraphTraversal), V (GraphTraversalV), E
\* (GraphTraversalE), SP (GraphTraversalShortestPath), Value
\* (GraphTraversalValue), or "panic" when the call did not return.
\* elems are the nodes, edges or paths, or the slice held by value; vk
\* tells what value holds: "nil", "list" or "scalar".  calls tells whether
\* the call that returned the step called a method of the graph.
Step(kind, gt, elems, vk, scalar, error, calls) ==
    [kind |-> kind, gt |-> gt, elems |-> elems, vk |-> vk, scalar |-> scalar,
     error |-> error, calls |-> calls]

NewGraphTraversal(g) == Step("G", Traversal(g, NoRange), <<>>, "nil", Nil, NoError, FALSE)
GraphTraversalError(e) == Step("G", NilTraversal, <<>>, "nil", Nil, e, FALSE)
StepV(gt, nodes, calls) == Step("V", gt, nodes, "nil", Nil, NoError, calls)
StepVError(gt, e, calls) == Step("V", gt, <<>>, "nil", Nil, e, calls)
StepE(gt, edges, calls) == Step("E", gt, edges, "nil", Nil, NoError, calls)
StepEError(gt, e, calls) == Step("E", gt, <<>>, "nil", Nil, e, calls)
StepSP(gt, paths, calls) == Step("SP", gt, paths, "nil", Nil, NoError, calls)
StepSPError(e) == Step("SP", NilTraversal, <<>>, "nil", Nil, e, FALSE)
StepValueList(gt, list) == Step("Value", gt, list, "list", Nil, NoError, FALSE)
StepValueScalar(gt, v) == Step("Value", gt, <<>>, "scalar", v, NoError, FALSE)
StepValueError(e) == Step("Value", NilTraversal, <<>>, "nil", Nil, e, FALSE)
Panic == Step("panic", NilTraversal, <<>>, "nil", Nil, "panic", FALSE)

\* "return tv": the call hands back its receiver and called nothing.
Same(tv) == [tv EXCEPT !.calls = FALSE]

\* Values() of each kind of step.  GraphTraversal.Values returns the graph
\* pointer in a slice; GraphTraversalValue.Values returns value when it is
\* a slice and a slice holding value otherwise.
Values(st) ==
    CASE st.kind = "G" -> <<Str(st.gt.Graph)>>
      [] st.kind = "Value" ->
            IF st.vk = "list" THEN st.elems
            ELSE IF st.vk = "scalar" THEN <<st.scalar>> ELSE <<Nil>>
      [] OTHER -> st.elems

\* The instants Context may be given, relative to time.Now(), and
\* at.After(time.Now().UTC()).
Instants == {"past", "now", "future"}
After(at) == at = "future"

\* The error of Context for an instant after now.
FutureError == "Sorry, I can't predict the future"

\* Context without the test of at.After(now): the view is built for any
\* instant.
ContextOfAnyInstant(t, at, ok) ==
    IF t.error # NoError THEN Same(t)
    ELSE IF ~ok THEN [GraphTraversalError("no backend") EXCEPT !.calls = TRUE]
    ELSE [NewGraphTraversal(t.gt.Graph) EXCEPT !.calls = TRUE]

\* GraphTraversal.Context(at [, duration]); ok tells whether
\* Graph.WithContext succeeds.  The new traversal has an empty step
\* context.
GraphTraversal_Context(t, at, ok) ==
    IF t.error # NoError THEN Same(t)
    ELSE IF After(at) THEN GraphTraversalError(FutureError)
    ELSE IF ~ok THEN [GraphTraversalError("no backend") EXCEPT !.calls = TRUE]
    ELSE [NewGraphTraversal(t.gt.Graph) EXCEPT !.calls = TRUE]

\* GraphTraversal.V(s...)
GraphTraversal_V(t, s) ==
    IF t.error # NoError THEN StepVError(NilTraversal, t.error, FALSE)
    ELSE IF Len(s) = 1
    THEN IF s[1].m # "str"
         THEN StepVError(NilTraversal, "V accepts only a string when there is only one argument", FALSE)
         ELSE IF Graph_GetNode(t.gt.Graph, s[1].s) = "nil"
              THEN StepVError(NilTraversal, "Node does not exist", TRUE)
              ELSE StepV(t.gt, Admit(<<s[1].s>>, Iterator(t.gt.ctx)), TRUE)
    ELSE IF Len(s) > 1 /\ SliceToMetadata(s).err # NoError
         THEN StepVError(NilTraversal, SliceToMetadata(s).err, FALSE)
         ELSE StepV(t.gt, Admit(Graph_GetNodes(t.gt.Graph, SliceToMetadata(s).m),
                                Iterator(t.gt.ctx)), TRUE)

\* GraphTraversalV.PropertyValues(keys...): keys[0].(string) does not
\* return when there is no key or the key is not a string.
GraphTraversalV_PropertyValues(tv, keys) ==
    IF tv.error # NoError THEN StepValueError(tv.error)
    ELSE IF Len(keys) = 0 \/ keys[1].m # "str" THEN Panic
    ELSE LET has == Select(tv.elems,
                      {n \in SeqRange(tv.elems) :
                         keys[1].s \in DOMAIN NodeMetadata(tv.gt.Graph, n)})
         IN StepValueList(tv.gt, [k \in DOMAIN has |->
                                    NodeMetadata(tv.gt.Graph, has[k])[keys[1].s]])

\* GraphTraversalV.PropertyKeys(): the keys of each node; a Go map is
\* ranged over in an order of its own, ord is the order of this call.
GraphTraversalV_PropertyKeys(tv, ord) ==
    IF tv.error # NoError THEN StepValueError(tv.error)
    ELSE StepValueList(tv.gt,
           Flatten([k \in DOMAIN tv.elems |->
                      LET ks == Select(ord, DOMAIN NodeMetadata(tv.gt.Graph, tv.elems[k]))
                      IN [x \in DOMAIN ks |-> Str(ks[x])]]))

RECURSIVE SumOf(_, _, _)
\* The loop of Sum: the int64 fields at key are added up.
SumOf(g, nodes, key) ==
    IF nodes = <<>> THEN 0
    ELSE (IF GetField(NodeMetadata(g, Head(nodes)), key).m = "int"
          THEN GetField(NodeMetadata(g, Head(nodes)), key).i ELSE 0)
           + SumOf(g, Tail(nodes), key)

\* GraphTraversalV.Sum(keys...)
GraphTraversalV_Sum(tv, keys) ==
    IF tv.error # NoError THEN StepValueError(tv.error)
    ELSE IF Len(keys) # 1 THEN StepValueError("Sum requires 1 parameter")
    ELSE IF keys[1].m # "str" THEN StepValueError("Sum parameter has to be a string key")
    ELSE StepValueScalar(tv.gt, Int64(SumOf(tv.gt.Graph, tv.elems, keys[1].s)))

\* hashstructure.Hash(values): the visited key of a tuple of values, the
\* tuple itself.
Hash(values) == values

RECURSIVE DedupNodes(_, _, _, _, _)
\* The loop of GraphTraversalV.Dedup: a node lacking one of the keys is
\* passed over; a node whose key was visited is passed over without
\* it.Next(); a node it.Next() does not admit is passed over and its key
\* is not recorded.
DedupNodes(g, nodes, keys, it, visited) ==
    IF nodes = <<>> \/ Done(it) THEN <<>>
    ELSE LET n == Head(nodes)
             md == NodeMetadata(g, n)
             kvisited == IF Len(keys) # 0
                         THEN Hash([x \in DOMAIN keys |-> GetField(md, keys[x].s)])
                         ELSE <<Str(n)>>
         IN IF Len(keys) # 0 /\ \E x \in DOMAIN keys : keys[x].s \notin DOMAIN md
            THEN DedupNodes(g, Tail(nodes), keys, it, visited)
            ELSE IF kvisited \in visited
            THEN DedupNodes(g, Tail(nodes), keys, it, visited)
            ELSE IF it.at < it.from
            THEN DedupNodes(g, Tail(nodes), keys, [it EXCEPT !.at = @ + 1], visited)
            ELSE <<n>> \o DedupNodes(g, Tail(nodes), keys, [it EXCEPT !.at = @ + 1],
                                     visited \cup {kvisited})

\* GraphTraversalV.Dedup(s...)
GraphTraversalV_Dedup(tv, s) ==
    IF tv.error # NoError THEN Same(tv)
    ELSE IF \E x \in DOMAIN s : s[x].m # "str"
    THEN StepVError(NilTraversal, "Dedup parameters have to be string keys", FALSE)
    ELSE StepV(tv.gt, DedupNodes(tv.gt.Graph, tv.elems, s, Iterator(tv.gt.ctx), {}), FALSE)

\* GraphTraversalV.ShortestPathTo(m, e): one path per node of the input
\* that has one; visited is looked up and never written.
GraphTraversalV_ShortestPathTo(tv, m, e) ==
    IF tv.error # NoError THEN StepSPError(tv.error)
    ELSE LET paths == [k \in DOMAIN tv.elems |->
                         Graph_LookupShortestPath(tv.gt.Graph, tv.elems[k], m, e)]
             found == Select([k \in DOMAIN paths |-> k],
                             {k \in DOMAIN paths : Len(paths[k]) > 0})
         IN StepSP(tv.gt, [k \in DOMAIN found |-> paths[found[k]]], TRUE)

\* GraphTraversalV.hasKey(k)
GraphTraversalV_hasKey(tv, k) ==
    IF tv.error # NoError THEN Same(tv)
    ELSE StepV(tv.gt, Select(tv.elems, {n \in SeqRange(tv.elems) :
                                          k \in DOMAIN NodeMetadata(tv.gt.Graph, n)}), FALSE)

\* GraphTraversalV.Has(s...)
GraphTraversalV_Has(tv, s) ==
    IF tv.error # NoError THEN Same(tv)
    ELSE IF Len(s) = 0
    THEN StepVError(NilTraversal, "At least one parameter must be provided", FALSE)
    ELSE IF Len(s) = 1
    THEN IF s[1].m # "str" THEN StepVError(NilTraversal, "Key must be a string", FALSE)
         ELSE GraphTraversalV_hasKey(tv, s[1].s)
    ELSE IF ParamsToFilter(s).err # NoError
    THEN StepVError(NilTraversal, ParamsToFilter(s).err, FALSE)
    ELSE StepV(tv.gt,
               Admit(Select(tv.elems,
                            {n \in SeqRange(tv.elems) :
                               Eval(ParamsToFilter(s).f, NodeMetadata(tv.gt.Graph, n))}),
                     Iterator(tv.gt.ctx)),
               FALSE)

\* The neighbours of n in the loop of Both: for each edge of n, the parent
\* when n is the child and the child otherwise, if it matches.
BothOf(g, n, m) ==
    LET es == Graph_GetNodeEdges(g, n, <<>>)
    IN Flatten([k \in DOMAIN es |->
                  IF GetChild(g, es[k]) = n
                  THEN Graph_GetEdgeNodes(g, es[k], m, <<>>).parents
                  ELSE Graph_GetEdgeNodes(g, es[k], <<>>, m).children])

\* GraphTraversalV.Both(s...)
GraphTraversalV_Both(tv, s) ==
    IF tv.error # NoError THEN Same(tv)
    ELSE IF SliceToMetadata(s).err # NoError
    THEN StepVError(NilTraversal, SliceToMetadata(s).err, FALSE)
    ELSE StepV(tv.gt,
               Admit(Flatten([k \in DOMAIN tv.elems |->
                                BothOf(tv.gt.Graph, tv.elems[k], SliceToMetadata(s).m)]),
                     Iterator(tv.gt.ctx)),
               TRUE)

\* GraphTraversalV.Count(s...)
GraphTraversalV_Count(tv) ==
    IF tv.error # NoError THEN StepValueError(tv.error)
    ELSE StepValueScalar(tv.gt, Int64(Len(tv.elems)))

\* A loop of Range with the closed interval from <= i <= to.
RangeOfClosed(elems, from, to) ==
    [k \in 1..(IF to + 1 < Len(elems) THEN to + 1 - from ELSE Len(elems) - from) |->
       elems[from + k]]

\* The loop of Range on a slice: the elements at the positions
\* from <= i < to, counted from 0; indexing with a negative from does not
\* return.
RangeOf(elems, from, to) ==
    [k \in 1..(IF to < Len(elems) THEN to - from ELSE Len(elems) - from) |-> elems[from + k]]

\* GraphTraversalV.Range(s...): s[0] and s[1] must be int64.
GraphTraversalV_Range(tv, s) ==
    IF tv.error # NoError THEN StepVError(NilTraversal, tv.error, FALSE)
    ELSE IF Len(s) # 2
    THEN StepVError(NilTraversal, "2 parameters must be provided to 'range'", FALSE)
    ELSE IF s[1].m # "int" \/ s[2].m # "int"
    THEN StepVError(NilTraversal, "not an integer", FALSE)
    ELSE IF s[1].i < 0 /\ s[1].i < Len(tv.elems) /\ s[1].i < s[2].i THEN Panic
    ELSE StepV(tv.gt, RangeOf(tv.elems, s[1].i, s[2].i), FALSE)

\* GraphTraversalV.Limit(s...): s[0] is read without a test of len(s).
GraphTraversalV_Limit(tv, s) ==
    IF Len(s) = 0 THEN Panic ELSE GraphTraversalV_Range(tv, <<Int64(0), s[1]>>)

\* GraphTraversalV.Out(s...)
GraphTraversalV_Out(tv, s) ==
    IF tv.error # NoError THEN Same(tv)
    ELSE IF SliceToMetadata(s).err # NoError
    THEN StepVError(NilTraversal, SliceToMetadata(s).err, FALSE)
    ELSE StepV(tv.gt,
               Admit(Flatten([k \in DOMAIN tv.elems |->
                                Graph_LookupChildren(tv.gt.Graph, tv.elems[k],
                                                     SliceToMetadata(s).m, <<>>)]),
                     Iterator(tv.gt.ctx)),
               TRUE)

\* The edges of n that leave it (dir = "out") or reach it (dir = "in").
NodeEdges(g, n, m, dir) ==
    Select(Graph_GetNodeEdges(g, n, m),
           {e \in SeqRange(EdgesOf(g)) :
              IF dir = "out" THEN GetParent(g, e) = n ELSE GetChild(g, e) = n})

\* GraphTraversalV.OutE(s...): the loop tests it.Done() and appends
\* without it.Next().
GraphTraversalV_OutE(tv, s) ==
    IF tv.error # NoError THEN StepEError(NilTraversal, tv.error, FALSE)
    ELSE IF SliceToMetadata(s).err # NoError
    THEN StepEError(NilTraversal, SliceToMetadata(s).err, FALSE)
    ELSE StepE(tv.gt,
               AdmitUncounted(Flatten([k \in DOMAIN tv.elems |->
                                         NodeEdges(tv.gt.Graph, tv.elems[k],
                                                   SliceToMetadata(s).m, "out")]),
                              Iterator(tv.gt.ctx)),
               TRUE)

\* GraphTraversalV.In(s...): the loop tests it.Done() and appends without
\* it.Next().
GraphTraversalV_In(tv, s) ==
    IF tv.error # NoError THEN Same(tv)
    ELSE IF SliceToMetadata(s).err # NoError
    THEN StepVError(NilTraversal, SliceToMetadata(s).err, FALSE)
    ELSE StepV(tv.gt,
               AdmitUncounted(Flatten([k \in DOMAIN tv.elems |->
                                         Graph_LookupParents(tv.gt.Graph, tv.elems[k],
                                                             SliceToMetadata(s).m, <<>>)]),
                              Iterator(tv.gt.ctx)),
               TRUE)

\* GraphTraversalV.InE(s...): the error of the arguments is returned in a
\* step that keeps the traversal.
GraphTraversalV_InE(tv, s) ==
    IF tv.error # NoError THEN StepEError(NilTraversal, tv.error, FALSE)
    ELSE IF SliceToMetadata(s).err # NoError
    THEN StepEError(tv.gt, SliceToMetadata(s).err, FALSE)
    ELSE StepE(tv.gt,
               Admit(Flatten([k \in DOMAIN tv.elems |->
                                NodeEdges(tv.gt.Graph, tv.elems[k],
                                          SliceToMetadata(s).m, "in")]),
                     Iterator(tv.gt.ctx)),
               TRUE)

\* GraphTraversalE.Count(s...)
GraphTraversalE_Count(te) ==
    IF te.error # NoError THEN StepValueError(te.error)
    ELSE StepValueScalar(te.gt, Int64(Len(te.elems)))

\* GraphTraversalE.Range(s...)
GraphTraversalE_Range(te, s) ==
    IF te.error # NoError THEN Same(te)
    ELSE IF Len(s) # 2
    THEN StepEError(te.gt, "2 parameters must be provided to 'range'", FALSE)
    ELSE IF s[1].m # "int" \/ s[2].m # "int"
    THEN StepEError(NilTraversal, "not an integer", FALSE)
    ELSE IF s[1].i < 0 /\ s[1].i < Len(te.elems) /\ s[1].i < s[2].i THEN Panic
    ELSE StepE(te.gt, RangeOf(te.elems, s[1].i, s[2].i), FALSE)

\* GraphTraversalE.Limit(s...)
GraphTraversalE_Limit(te, s) ==
    IF te.error # NoError THEN Same(te)
    ELSE IF Len(s) = 0 THEN Panic
    ELSE GraphTraversalE_Range(te, <<Int64(0), s[1]>>)

RECURSIVE DedupEdges(_, _, _, _)
\* The loop of GraphTraversalE.Dedup: the visited key of an edge is its
\* value at key when it has one and its identifier otherwise.
DedupEdges(g, edges, key, visited) ==
    IF edges = <<>> THEN <<>>
    ELSE LET e == Head(edges)
             md == EdgeMetadata(g, e)
             kvisited == IF key # "" /\ key \in DOMAIN md THEN md[key] ELSE Str(e)
         IN IF kvisited \in visited THEN DedupEdges(g, Tail(edges), key, visited)
            ELSE <<e>> \o DedupEdges(g, Tail(edges), key, visited \cup {kvisited})

\* GraphTraversalE.Dedup(keys...): only keys[0] is read; no iterator.
GraphTraversalE_Dedup(te, keys) ==
    IF te.error # NoError THEN Same(te)
    ELSE IF Len(keys) > 0 /\ keys[1].m # "str"
    THEN StepEError(NilTraversal, "Dedup parameter has to be a string key", FALSE)
    ELSE StepE(te.gt,
               DedupEdges(te.gt.Graph, te.elems,
                          IF Len(keys) > 0 THEN keys[1].s ELSE "", {}),
               FALSE)

\* GraphTraversalE.hasKey(k)
GraphTraversalE_hasKey(te, k) ==
    IF te.error # NoError THEN Same(te)
    ELSE StepE(te.gt,
               Admit(Select(te.elems, {e \in SeqRange(te.elems) :
                                         k \in DOMAIN EdgeMetadata(te.gt.Graph, e)}),
                     Iterator(te.gt.ctx)),
               FALSE)

\* GraphTraversalE.Has(s...)
GraphTraversalE_Has(te, s) ==
    IF te.error # NoError THEN Same(te)
    ELSE IF Len(s) = 0
    THEN StepEError(NilTraversal, "At least one parameters must be provided", FALSE)
    ELSE IF Len(s) = 1
    THEN IF s[1].m # "str" THEN StepEError(NilTraversal, "Key must be a string", FALSE)
         ELSE GraphTraversalE_hasKey(te, s[1].s)
    ELSE IF SliceToMetadata(s).err # NoError
    THEN StepEError(NilTraversal, SliceToMetadata(s).err, FALSE)
    ELSE StepE(te.gt,
               Admit(Select(te.elems,
                            {e \in SeqRange(te.elems) :
                               MatchMetadata(EdgeMetadata(te.gt.Graph, e),
                                             SliceToMetadata(s).m)}),
                     Iterator(te.gt.ctx)),
               FALSE)

\* GraphTraversalE.InV(s...): the parents of the edges.
GraphTraversalE_InV(te, s) ==
    IF te.error # NoError THEN StepVError(NilTraversal, te.error, FALSE)
    ELSE IF SliceToMetadata(s).err # NoError
    THEN StepVError(NilTraversal, SliceToMetadata(s).err, FALSE)
    ELSE StepV(te.gt,
               Admit(Flatten([k \in DOMAIN te.elems |->
                                Graph_GetEdgeNodes(te.gt.Graph, te.elems[k],
                                                   SliceToMetadata(s).m, <<>>).parents]),
                     Iterator(te.gt.ctx)),
               TRUE)

\* GraphTraversalE.OutV(s...): the children of the edges.
GraphTraversalE_OutV(te, s) ==
    IF te.error # NoError THEN StepVError(NilTraversal, te.error, FALSE)
    ELSE IF SliceToMetadata(s).err # NoError
    THEN StepVError(NilTraversal, SliceToMetadata(s).err, FALSE)
    ELSE StepV(te.gt,
               Admit(Flatten([k \in DOMAIN te.elems |->
                                Graph_GetEdgeNodes(te.gt.Graph, te.elems[k],
                                                   <<>>, SliceToMetadata(s).m).children]),
                     Iterator(te.gt.ctx)),
               TRUE)

RECURSIVE DedupValues(_, _)
\* The loop of GraphTraversalValue.Dedup over t.Values().
DedupValues(vs, visited) ==
    IF vs = <<>> THEN <<>>
    ELSE IF Head(vs) \in visited THEN DedupValues(Tail(vs), visited)
    ELSE <<Head(vs)>> \o DedupValues(Tail(vs), visited \cup {Head(vs)})

\* GraphTraversalValue.Dedup(keys...): the result holds a slice.
GraphTraversalValue_Dedup(t) ==
    IF t.error # NoError THEN Same(t)
    ELSE StepValueList(t.gt, DedupValues(Values(t), {}))

\* No query is being evaluated.
IdleTraversal ==
    [step |-> NewGraphTraversal(NilGraph), depth |-> 0, op |-> "", args |-> <<>>,
     prevError |-> NoError]

(***************************************************************************)
(* The graph as the orchestrator reads it.                                 *)
(***************************************************************************)
\* node.Host(): the host label of a node, the agent that owns it.
Host(n) == IF n % 2 = 1 THEN "h1" ELSE "h2"

\* The path a shortest-path query returns for source n: the nodes are
\* chained n, n-1, ..., 1 and the target is node 1.
PathFrom(n) == [k \in 1..n |-> n + 1 - k]

\* topology.ExecuteGremlinQuery(o.graph, query).Values(): a list whose
\* items are nodes (*graph.Node) or paths ([]*graph.Node).
Resolve(q, present) ==
    LET ns == SetToSeq(present) IN
    IF q = "V"
    THEN [k \in DOMAIN ns |-> [kind |-> "node", nodes |-> <<ns[k]>>]]
    ELSE LET src == SetToSeq({n \in present : \A m \in 1..n : m \in present})
         IN [k \in DOMAIN src |-> [kind |-> "path", nodes |-> PathFrom(src[k])]]

\* applyGremlinExpr: evaluate the query against the graph whose nodes
\* are `present`.
applyGremlinExpr(q, present) == Resolve(q, present)

\* The node identifiers of a query result, in the order the loops of
\* registerProbes and onCaptureDeleted visit them.
ResultNodes(res) == Flatten([k \in DOMAIN res |-> res[k].nodes])

(***************************************************************************)
(* Messages handed to the bus (shttp.NewWSMessage(ondemand.Namespace, ..)) *)
(***************************************************************************)
Namespace == "ondemand"

\* BroadcastWSMessage: the payload is the capture record.
Broadcast(type, c, q) ==
    [ns |-> Namespace, type |-> type, node |-> 0, capture |-> c, query |-> q,
     to |-> "*", ok |-> TRUE]

\* SendWSMessageTo(msg, host): the payload is a CaptureQuery{NodeID, Capture};
\* ok is the delivery result.
Directed(type, n, c, host, ok) ==
    [ns |-> Namespace, type |-> type, node |-> n, capture |-> c, query |-> NoQuery,
     to |-> host, ok |-> ok]

\* Threads and locks.  o.RWMutex (mutex) is held by at most one thread;
\* the lock of o.graph is held by one writer (graphW) or by readers
\* (graphR).  w is the thread of the capture watcher, m the thread that
\* mutates the graph and runs its listeners.
NoThread == "none"
Watcher == "watcher"
Mutator == "mutator"

\* No lock is held and no handler is running.  stopped is history: the
\* captures whose deletion has sent its CaptureStop messages and that
\* have not been added again.
IdleThreads ==
    [mutex |-> NoThread, graphW |-> NoThread, graphR |-> {},
     w |-> [pc |-> "idle", op |-> "", capture |-> NoCapture, query |-> NoQuery,
            nodes |-> <<>>],
     m |-> [pc |-> "idle", rest |-> {}],
     stopped |-> {}]

\* The history record of a step that is neither a graph event nor the
\* step of a goroutine.
NoStep == [op |-> "none", capture |-> NoCapture, origin |-> "", ended |-> FALSE,
           res |-> <<>>, sent |-> <<>>, spawned |-> {}]

\* What a step writes to last: the record when the behaviour keeps history.
Record(r) == IF hist THEN r ELSE NoStep

(***************************************************************************)
(* registerProbes goroutines.                                              *)
(***************************************************************************)
\* go o.registerProbes(res, capture): the goroutine starts at the first
\* node of the first item.  origin tells which handler spawned it.
NewTask(c, res, origin) ==
    [capture |-> c, res |-> res, i |-> 1, j |-> 1, pc |-> "check", origin |-> origin]

TaskNode(t) == t.res[t.i].nodes[t.j]

\* The nodes a goroutine has issued a CaptureStart for so far, in order:
\* those before its position.
SentBy(t) ==
    Flatten([k \in 1..(t.i - 1) |-> t.res[k].nodes])
      \o (IF t.i \in DOMAIN t.res THEN SubSeq(t.res[t.i].nodes, 1, t.j - 1) ELSE <<>>)

Running == BagToSet(tasks)

HasRoom(sp) == BagCardinality(tasks) + Cardinality(sp) <= MaxTasks

\* The position after (i, j) in the two nested loops of registerProbes;
\* i = Len(res) + 1 when both loops are over.
NextPos(t) ==
    IF t.j < Len(t.res[t.i].nodes) THEN [i |-> t.i, j |-> t.j + 1]
    ELSE [i |-> t.i + 1, j |-> 1]

\* The test of registerProbes on a node: GetFieldString("Capture/ID")
\* succeeds, whatever capture the value names.
AlreadyBound(n) == captureID[n] # NoCapture

\* registerProbes, first half of an iteration: under o.graph.RLock() the
\* node is tested for Capture/ID.  When it has one the goroutine returns;
\* otherwise nodeID and host are read and the lock is released.
registerProbesCheck(t) ==
    /\ t \in Running
    /\ t.pc = "check"
    /\ IF AlreadyBound(TaskNode(t))
       THEN /\ tasks' = tasks (-) SetToBag({t})
            /\ last' = Record([NoStep EXCEPT !.op = "return", !.capture = t.capture,
                                          !.origin = t.origin, !.ended = TRUE,
                                          !.res = t.res, !.sent = SentBy(t)])
       ELSE /\ tasks' = (tasks (-) SetToBag({t})) (+) SetToBag({[t EXCEPT !.pc = "send"]})
            /\ last' = NoStep
    /\ out' = <<>>
    /\ UNCHANGED <<gnodes, captureID, registry, captures, isMaster,
                   pendingStart, failed, hist, tg, trav, threads>>

\* registerProbes, second half of an iteration: registerProbe sends
\* CaptureStart{NodeID, Capture} to the host read before; ok is the result
\* of SendWSMessageTo.  The result is not looked at; the loops go on.
registerProbe(t, ok) ==
    LET n == TaskNode(t)
        np == NextPos(t)
        t2 == [t EXCEPT !.i = np.i, !.j = np.j, !.pc = "check"]
        over == np.i > Len(t.res)
    IN /\ t \in Running
       /\ t.pc = "send"
       /\ out' = <<Directed("CaptureStart", n, t.capture, Host(n), ok)>>
       /\ pendingStart' = IF ok THEN pendingStart \cup {<<n, t.capture>>} ELSE pendingStart
       /\ failed' = IF ~hist THEN failed
                    ELSE IF ok \/ <<n, t.capture>> \in pendingStart
                    THEN failed \ {<<n, t.capture>>}
                    ELSE failed \cup {<<n, t.capture>>}
       /\ tasks' = IF over THEN tasks (-) SetToBag({t})
                   ELSE (tasks (-) SetToBag({t})) (+) SetToBag({t2})
       /\ last' = Record([NoStep EXCEPT !.op = "send", !.capture = t.capture,
                                   !.origin = t.origin, !.ended = over,
                                   !.res = t.res, !.sent = SentBy(t2)])
       /\ UNCHANGED <<gnodes, captureID, registry, captures, isMaster, hist, tg, trav, threads>>

(***************************************************************************)
(* Graph listener: OnNodeAdded, OnNodeUpdated, OnEdgeAdded -> onNodeEvent. *)
(***************************************************************************)
\* onNodeEvent: the goroutines it spawns when the graph holds the nodes
\* `present`: none when not master; else one per known capture whose
\* query resolves to something.
onNodeEvent(present) ==
    IF ~isMaster THEN {}
    ELSE {NewTask(c, applyGremlinExpr(captures[c], present), "graph") :
            c \in {d \in Captures : captures[d] # NoQuery
                      /\ Len(applyGremlinExpr(captures[d], present)) > 0}}

\* The part of a graph mutation that runs the listener.
NotifyGraphEvent(present) ==
    LET sp == onNodeEvent(present)
    IN /\ HasRoom(sp)
       /\ tasks' = tasks (+) SetToBag(sp)
       /\ out' = <<>>
       /\ last' = Record([NoStep EXCEPT !.op = "graph", !.spawned = {t.capture : t \in sp}])

\* A node is added to the graph (it may already carry the Capture/ID an
\* agent gave it); the graph calls OnNodeAdded.
OnNodeAdded(n, cid) ==
    /\ n \notin gnodes
    /\ gnodes' = gnodes \cup {n}
    /\ captureID' = [captureID EXCEPT ![n] = cid]
    /\ NotifyGraphEvent(gnodes')
    /\ UNCHANGED <<registry, captures, isMaster, pendingStart, failed, hist, tg, trav, threads>>

\* An edge is added between two nodes of the graph; the graph calls
\* OnEdgeAdded.  Queries are resolved from the nodes alone.
OnEdgeAdded ==
    /\ Cardinality(gnodes) >= 2
    /\ NotifyGraphEvent(gnodes)
    /\ UNCHANGED <<gnodes, captureID, registry, captures, isMaster,
                   pendingStart, failed, hist, tg, trav, threads>>

\* The agent of the node's host handles a delivered CaptureStart: it
\* starts the probe and sets Capture/ID unless the node already has one.
\* The metadata change reaches the listener as OnNodeUpdated.
AgentCaptureStart(n, c) ==
    /\ <<n, c>> \in pendingStart
    /\ pendingStart' = pendingStart \ {<<n, c>>}
    /\ IF captureID[n] = NoCapture
       THEN /\ captureID' = [captureID EXCEPT ![n] = c]
            /\ NotifyGraphEvent(gnodes)
       ELSE /\ out' = <<>>
            /\ last' = NoStep
            /\ UNCHANGED <<captureID, tasks>>
    /\ UNCHANGED <<gnodes, registry, captures, isMaster, failed, hist, tg, trav, threads>>

\* The agent stops the probe of a node (a CaptureStop reached it, or the
\* probe ended on the agent's side) and removes Capture/ID; the listener
\* sees OnNodeUpdated.
AgentCaptureStop(n) ==
    /\ n \in gnodes
    /\ captureID[n] # NoCapture
    /\ captureID' = [captureID EXCEPT ![n] = NoCapture]
    /\ NotifyGraphEvent(gnodes)
    /\ UNCHANGED <<gnodes, registry, captures, isMaster, pendingStart, failed, hist, tg, trav, threads>>

(***************************************************************************)
(* Capture registry watcher: onAPIWatcherEvent.                            *)
(***************************************************************************)
\* onCaptureAdded(capture): nothing when not master; else the capture is
\* stored and, when its query resolves to something, a registerProbes
\* goroutine is spawned.
onCaptureAdded(c, q) ==
    LET res == applyGremlinExpr(q, gnodes)
        sp == IF isMaster /\ Len(res) > 0 THEN {NewTask(c, res, "api")} ELSE {}
    IN /\ HasRoom(sp)
       /\ captures' = IF isMaster THEN [captures EXCEPT ![c] = q] ELSE captures
       /\ tasks' = tasks (+) SetToBag(sp)

\* unregisterProbe(node): the CaptureStop message for a node; ok is the
\* result of SendWSMessageTo.
unregisterProbe(n, ok) == Directed("CaptureStop", n, NoCapture, Host(n), ok)

\* A loop over res.Values() that stops at the first failed delivery: the
\* messages up to and including the first one whose send failed.
StopMessagesUntilFailure(res, oks) ==
    LET ns == ResultNodes(res)
        bad == {k \in DOMAIN ns : ~oks[k]}
        stop == IF bad = {} THEN Len(ns) ELSE CHOOSE k \in bad : \A m \in bad : k <= m
    IN [k \in 1..stop |-> unregisterProbe(ns[k], oks[k])]

\* The loop of onCaptureDeleted over res.Values(): one unregisterProbe
\* per node, per node of each path; oks[k] is the delivery result of the
\* k-th send.  A failed send is logged and the loop goes on.
StopMessages(res, oks) ==
    LET ns == ResultNodes(res)
    IN [k \in DOMAIN ns |-> unregisterProbe(ns[k], oks[k])]

\* onCaptureDeleted(capture): nothing when not master; else the capture
\* is removed from o.captures and the nodes its query resolves to are
\* sent CaptureStop.
onCaptureDeleted(c, q, oks) ==
    LET res == applyGremlinExpr(q, gnodes)
        msgs == IF isMaster THEN StopMessages(res, oks) ELSE <<>>
    IN /\ captures' = IF isMaster THEN [captures EXCEPT ![c] = NoQuery] ELSE captures
       /\ out' = <<Broadcast("CaptureDeleted", c, q)>> \o msgs
       /\ UNCHANGED <<tasks>>

\* The registry stores or replaces capture c and the watcher delivers the
\* event: onAPIWatcherEvent(action, id, capture) with action among init,
\* create, set, update.  CaptureAdded is broadcast, then onCaptureAdded.
WatcherAdded(action, c, q) ==
    /\ action \in AddActions
    /\ action = "init" => registry[c] = q
    /\ action = "create" => registry[c] = NoQuery
    /\ action = "update" => registry[c] # NoQuery
    /\ registry' = [registry EXCEPT ![c] = q]
    /\ out' = <<Broadcast("CaptureAdded", c, q)>>
    /\ onCaptureAdded(c, q)
    /\ last' = NoStep
    /\ UNCHANGED <<gnodes, captureID, isMaster, pendingStart, failed, hist, tg, trav, threads>>

\* The registry drops capture c and the watcher delivers the event:
\* onAPIWatcherEvent(action, id, capture) with action among expire,
\* delete.  CaptureDeleted is broadcast, then onCaptureDeleted.
WatcherDeleted(action, c, oks) ==
    /\ action \in DelActions
    /\ registry[c] # NoQuery
    /\ registry' = [registry EXCEPT ![c] = NoQuery]
    /\ onCaptureDeleted(c, registry[c], oks)
    /\ last' = NoStep
    /\ UNCHANGED <<gnodes, captureID, isMaster, pendingStart, failed, hist, tg, trav, threads>>

(***************************************************************************)
(* Leader election (etcd.EtcdMasterElector).                               *)
(***************************************************************************)
ElectorGain ==
    /\ ~isMaster
    /\ isMaster' = TRUE
    /\ out' = <<>>
    /\ last' = NoStep
    /\ UNCHANGED <<gnodes, captureID, registry, captures, tasks,
                   pendingStart, failed, hist, tg, trav, threads>>

ElectorLose ==
    /\ isMaster
    /\ isMaster' = FALSE
    /\ out' = <<>>
    /\ last' = NoStep
    /\ UNCHANGED <<gnodes, captureID, registry, captures, tasks,
                   pendingStart, failed, hist, tg, trav, threads>>

(***************************************************************************)
(* TID mapper (type TIDMapper): a graph listener that writes the metadata  *)
(* TID of the nodes.                                                       *)
(***************************************************************************)
\* Strings are sequences of atoms, so that concatenation is \o.  An atom
\* is a literal piece of text or the text of a UUIDv5, which is determined
\* by the string that was hashed.
Lit(x) == <<[k |-> "lit", s |-> x, arg |-> <<>>]>>
Empty == <<>>

\* uuid.NewV5(uuid.NamespaceOID, []byte(str)).String()
UUIDv5(str) == <<[k |-> "v5", s |-> "", arg |-> str]>>

\* The runs of the mapper that are observed side by side.
Runs == {1, 2}

\* The nodes, their final metadata and the edges the agents announce.
TNodes == {"h", "ns", "if"}
Keys == {"Type", "Name", "Path", "UUID", "Probe", "TID"}
TargetMetadata(n) ==
    CASE n = "h" -> [k \in Keys |-> IF k = "Type" THEN Lit("host") ELSE Empty]
      [] n = "ns" -> [k \in Keys |-> CASE k = "Type" -> Lit("netns")
                                       [] k = "Path" -> Lit("/var/run/netns/x")
                                       [] k = "Name" -> Lit("x")
                                       [] OTHER -> Empty]
      [] OTHER -> [k \in Keys |-> CASE k = "Type" -> Lit("veth")
                                    [] k = "Name" -> Lit("eth0")
                                    [] OTHER -> Empty]
TargetKeys(n) == {k \in Keys : TargetMetadata(n)[k] # Empty}

TEdges == {[parent |-> "h", child |-> "ns", rel |-> "ownership"],
           [parent |-> "ns", child |-> "if", rel |-> "ownership"],
           [parent |-> "h", child |-> "if", rel |-> "layer2"]}

NoMetadata == [k \in Keys |-> Empty]
EmptyGraph == [nodes |-> [n \in TNodes |-> [present |-> FALSE, md |-> NoMetadata]],
               edges |-> {},
               hostID |-> Empty]

\* n.GetFieldString(k): the value, Empty when the key is missing.
GetFieldString(g, n, k) == g.nodes[n].md[k]

\* t.Graph.LookupChildren(parent, Metadata{}, Metadata{"RelationType": "ownership"})
LookupChildren(g, parent) ==
    {e.child : e \in {x \in g.edges : x.parent = parent /\ x.rel = "ownership"}}

\* t.Graph.LookupParents(n, Metadata{}, Metadata{"RelationType": "ownership"})
LookupParents(g, n) ==
    {e.parent : e \in {x \in g.edges : x.child = n /\ x.rel = "ownership"}}

RECURSIVE TIDMapper_onNodeEvent(_, _)
RECURSIVE AddMetadata(_, _, _, _)
RECURSIVE TIDMapper_setChildrenTID(_, _, _)

\* t.Graph.AddMetadata(n, k, v): the value is stored and the listeners are
\* told: the mapper's OnNodeUpdated runs onNodeEvent on the node.
AddMetadata(g, n, k, v) ==
    TIDMapper_onNodeEvent([g EXCEPT !.nodes[n].md[k] = v], n)

\* TIDMapper.setTID(parent, child)
TIDMapper_setTID(g, parent, child) ==
    LET tp == GetFieldString(g, child, "Type")
        name == GetFieldString(g, child, "Name")
        tid == GetFieldString(g, parent, "TID")
    IN IF tp = Empty THEN g
       ELSE IF name = Empty THEN g
       ELSE IF tid # Empty
            THEN AddMetadata(g, child, "TID", UUIDv5(tid \o name \o tp))
            ELSE g

\* TIDMapper.setChildrenTID(parent): setTID on each of `children`.
TIDMapper_setChildrenTID(g, parent, children) ==
    IF children = {} THEN g
    ELSE LET c == CHOOSE x \in children : TRUE
         IN TIDMapper_setChildrenTID(TIDMapper_setTID(g, parent, c), parent,
                                     children \ {c})

\* TIDMapper.onNodeEvent(n)
TIDMapper_onNodeEvent(g, n) ==
    LET tp == GetFieldString(g, n, "Type") IN
    IF GetFieldString(g, n, "TID") # Empty \/ tp = Empty THEN g
    ELSE CASE tp = Lit("host") ->
                LET g1 == AddMetadata([g EXCEPT !.hostID = Lit(n)], n, "TID", Lit(n))
                IN TIDMapper_setChildrenTID(g1, n, LookupChildren(g1, n))
           [] tp = Lit("netns") ->
                LET path == GetFieldString(g, n, "Path") IN
                IF path # Empty
                THEN LET g1 == AddMetadata(g, n, "TID", UUIDv5(g.hostID \o path \o tp))
                     IN TIDMapper_setChildrenTID(g1, n, LookupChildren(g1, n))
                ELSE g
           [] tp = Lit("ovsport") ->
                LET u == GetFieldString(g, n, "UUID") IN
                IF u # Empty
                THEN LET g1 == AddMetadata(g, n, "TID", UUIDv5(g.hostID \o u \o tp))
                     IN TIDMapper_setChildrenTID(g1, n, LookupChildren(g1, n))
                ELSE g
           [] OTHER ->
                IF GetFieldString(g, n, "Probe") = Lit("fabric")
                THEN AddMetadata(g, n, "TID", Lit(n))
                ELSE LET parents == LookupParents(g, n) IN
                     IF Cardinality(parents) > 1 THEN g
                     ELSE IF Cardinality(parents) = 1
                          THEN TIDMapper_setTID(g, CHOOSE x \in parents : TRUE, n)
                          ELSE g

\* TIDMapper.onEdgeEvent(e)
TIDMapper_onEdgeEvent(g, e) ==
    IF e.rel # "ownership" THEN g
    ELSE IF ~g.nodes[e.parent].present \/ ~g.nodes[e.child].present THEN g
    ELSE TIDMapper_setTID(g, e.parent, e.child)

OrchestratorIdle ==
    UNCHANGED <<gnodes, captureID, registry, captures, isMaster, tasks,
                pendingStart, failed, out, last, hist, trav, threads>>

\* Run r: a node is added to the graph with the metadata keys ks already
\* set; the graph calls OnNodeAdded.
TID_OnNodeAdded(r, n, ks) ==
    /\ ~tg[r].nodes[n].present
    /\ LET md == [k \in Keys |-> IF k \in ks THEN TargetMetadata(n)[k] ELSE Empty]
           g1 == [tg[r] EXCEPT !.nodes[n] = [present |-> TRUE, md |-> md]]
       IN tg' = [tg EXCEPT ![r] = TIDMapper_onNodeEvent(g1, n)]
    /\ OrchestratorIdle

\* Run r: a missing metadata key of a node is set; the graph calls
\* OnNodeUpdated.
TID_OnNodeUpdated(r, n, k) ==
    /\ tg[r].nodes[n].present
    /\ k \in TargetKeys(n)
    /\ tg[r].nodes[n].md[k] = Empty
    /\ tg' = [tg EXCEPT ![r] = AddMetadata(tg[r], n, k, TargetMetadata(n)[k])]
    /\ OrchestratorIdle

\* Run r: an edge is added between two nodes of the graph; the graph calls
\* OnEdgeAdded.
TID_OnEdgeAdded(r, e) ==
    /\ e \notin tg[r].edges
    /\ tg[r].nodes[e.parent].present
    /\ tg[r].nodes[e.child].present
    /\ tg' = [tg EXCEPT ![r] =
                TIDMapper_onEdgeEvent([tg[r] EXCEPT !.edges = @ \cup {e}], e)]
    /\ OrchestratorIdle

\* Run r: the metadata of an edge of the graph changes; the graph calls
\* OnEdgeUpdated.
TID_OnEdgeUpdated(r, e) ==
    /\ e \in tg[r].edges
    /\ tg' = [tg EXCEPT ![r] = TIDMapper_onEdgeEvent(tg[r], e)]
    /\ OrchestratorIdle

\* NewTIDMapper and Start on empty graphs; the orchestrator is not running.
InitTID ==
    /\ tg = [r \in Runs |-> EmptyGraph]
    /\ gnodes = {}
    /\ captureID = [n \in Nodes |-> NoCapture]
    /\ registry = [c \in Captures |-> NoQuery]
    /\ captures = registry
    /\ isMaster = FALSE
    /\ tasks = EmptyBag
    /\ pendingStart = {}
    /\ failed = {}
    /\ out = <<>>
    /\ last = NoStep
    /\ hist = FALSE
    /\ trav = IdleTraversal
    /\ threads = IdleThreads

NextTIDRun(r) ==
    \/ \E n \in TNodes : \E ks \in SUBSET TargetKeys(n) : TID_OnNodeAdded(r, n, ks)
    \/ \E n \in TNodes, k \in Keys : TID_OnNodeUpdated(r, n, k)
    \/ \E e \in TEdges : TID_OnEdgeAdded(r, e)
    \/ \E e \in TEdges : TID_OnEdgeUpdated(r, e)

\* One mapper on one graph.
NextTID == NextTIDRun(1)

SpecTID == InitTID /\ [][NextTID]_vars

\* Two independent mappers, each on its own graph and with its own order
\* of events; the nodes are announced with all their metadata.
NextTIDPair ==
    \E r \in Runs :
       \/ \E n \in TNodes : TID_OnNodeAdded(r, n, TargetKeys(n))
       \/ \E e \in TEdges : TID_OnEdgeAdded(r, e)
       \/ \E e \in TEdges : TID_OnEdgeUpdated(r, e)

SpecTIDPair == InitTID /\ [][NextTIDPair]_vars

\* Run r: the graph delivers OnNodeUpdated for a node again, its metadata
\* and the graph being what they were.
TID_OnNodeUpdatedAgain(r, n) ==
    /\ tg[r].nodes[n].present
    /\ tg' = [tg EXCEPT ![r] = TIDMapper_onNodeEvent(tg[r], n)]
    /\ OrchestratorIdle

\* One mapper on one graph whose events may be delivered again.
NextTIDAgain ==
    \/ NextTID
    \/ \E n \in TNodes : TID_OnNodeUpdatedAgain(1, n)

SpecTIDAgain == InitTID /\ [][NextTIDAgain]_vars

\* The edges of a graph that breaks the ownership constraint: the
\* interface is owned by the netns and by the host.
TEdgesTwoParents ==
    {[parent |-> "h", child |-> "ns", rel |-> "ownership"],
     [parent |-> "ns", child |-> "if", rel |-> "ownership"],
     [parent |-> "h", child |-> "if", rel |-> "ownership"]}

\* One mapper on the graph with the doubly owned interface.
NextTIDTwoParents ==
    \/ \E n \in TNodes : \E ks \in SUBSET TargetKeys(n) : TID_OnNodeAdded(1, n, ks)
    \/ \E n \in TNodes, k \in Keys : TID_OnNodeUpdated(1, n, k)
    \/ \E e \in TEdgesTwoParents : TID_OnEdgeAdded(1, e)
    \/ \E e \in TEdgesTwoParents : TID_OnEdgeUpdated(1, e)

SpecTIDTwoParents == InitTID /\ [][NextTIDTwoParents]_vars

(***************************************************************************)
(* The orchestrator: NewOnDemandProbeClient, Start, and its steps.         *)
(***************************************************************************)
\* NewOnDemandProbeClient: o.captures is loaded from ch.Index(), the
\* current content of the registry.
InitClient ==
    /\ gnodes = {}
    /\ captureID = [n \in Nodes |-> NoCapture]
    /\ registry \in [Captures -> Queries \cup {NoQuery}]
    /\ captures = registry
    /\ isMaster \in BOOLEAN
    /\ tasks = EmptyBag
    /\ pendingStart = {}
    /\ failed = {}
    /\ out = <<>>
    /\ last = NoStep
    /\ trav = IdleTraversal
    /\ threads = IdleThreads

Init ==
    /\ InitClient
    /\ hist = FALSE
    /\ tg = [r \in Runs |-> EmptyGraph]

\* The same orchestrator, observed with the history variables failed and last.
InitHistory ==
    /\ InitClient
    /\ hist = TRUE
    /\ tg = [r \in Runs |-> EmptyGraph]

Next ==
    \/ \E a \in AddActions, c \in Captures, q \in Queries : WatcherAdded(a, c, q)
    \/ \E a \in DelActions, c \in Captures :
          \E oks \in [1..Len(ResultNodes(applyGremlinExpr(registry[c], gnodes))) -> BOOLEAN] :
             WatcherDeleted(a, c, oks)
    \/ \E n \in Nodes, cid \in Captures \cup {NoCapture} : OnNodeAdded(n, cid)
    \/ OnEdgeAdded
    \/ \E n \in Nodes, c \in Captures : AgentCaptureStart(n, c)
    \/ \E n \in Nodes : AgentCaptureStop(n)
    \/ \E t \in Running : registerProbesCheck(t)
    \/ \E t \in Running, ok \in BOOLEAN : registerProbe(t, ok)
    \/ ElectorGain
    \/ ElectorLose

Spec == Init /\ [][Next]_vars

SpecHistory == InitHistory /\ [][Next]_vars

(***************************************************************************)
(* The orchestrator thread by thread: the capture watcher, the thread that *)
(* mutates the graph and the registerProbes goroutines, one lock           *)
(* operation or one statement at a time.                                   *)
(***************************************************************************)
\* The capture UUIDs and the queries of this view of the orchestrator.
ThreadCaptures == {1, 2}
ThreadQueries == {"V"}

\* The node the graph mutations of this view are about.
ThreadNodes == {1}

\* sync.RWMutex: Lock() is granted when nobody holds the lock, RLock()
\* when no writer holds it.
CanLock == threads.graphW = NoThread /\ threads.graphR = {}
CanRLock == threads.graphW = NoThread

\* The name of goroutine t as a holder of the graph lock.
TaskNames == <<"go1", "go2", "go3">>
TaskId(t) == TaskNames[t.id]

\* go o.registerProbes(res, capture) in this view: the goroutine gets the
\* smallest identifier no running goroutine has and starts by requesting
\* the read lock of the graph.
SpawnTask(c, res, origin) ==
    LET free == (1..MaxTasks) \ {t.id : t \in Running}
        id == CHOOSE i \in free : \A k \in free : i <= k
    IN [capture |-> c, res |-> res, i |-> 1, j |-> 1, pc |-> "rlock",
        origin |-> origin, id |-> id]

\* The captures onNodeEvent starts a goroutine for when the graph holds
\* the nodes `present`.
Resolving(present) ==
    {c \in ThreadCaptures : captures[c] # NoQuery
                             /\ Len(applyGremlinExpr(captures[c], present)) > 0}

\* onAPIWatcherEvent(action, id, capture): the registry has stored or
\* dropped capture c; the watcher thread broadcasts the event and enters
\* onCaptureAdded or onCaptureDeleted, which returns at once when the
\* orchestrator is not master.
onAPIWatcherEvent(action, c, q) ==
    LET add == action \in AddActions
    IN /\ threads.w.pc = "idle"
       /\ add \/ registry[c] = q
       /\ registry' = [registry EXCEPT ![c] = IF add THEN q ELSE NoQuery]
       /\ out' = <<Broadcast(IF add THEN "CaptureAdded" ELSE "CaptureDeleted", c, q)>>
       /\ threads' = IF ~isMaster THEN threads
                     ELSE [threads EXCEPT !.w = [pc |-> "Lock",
                                                 op |-> IF add THEN "add" ELSE "delete",
                                                 capture |-> c, query |-> q,
                                                 nodes |-> <<>>]]
       /\ UNCHANGED <<gnodes, captureID, captures, isMaster, tasks,
                      pendingStart, failed, last, hist, tg, trav>>

\* o.Lock() of onCaptureAdded and of onCaptureDeleted.
Handler_Lock ==
    /\ threads.w.pc = "Lock"
    /\ threads.mutex = NoThread
    /\ threads' = [threads EXCEPT !.mutex = Watcher, !.w.pc = "GraphLock"]
    /\ out' = <<>>
    /\ UNCHANGED <<gnodes, captureID, registry, captures, isMaster, tasks,
                   pendingStart, failed, last, hist, tg, trav>>

\* onCaptureAdded with no graph lock: the insert is reached with
\* o.RWMutex alone.
onCaptureAdded_NoRLock ==
    /\ threads.w.pc = "GraphLock"
    /\ threads.w.op = "add"
    /\ BagCardinality(tasks) < MaxTasks
    /\ threads' = [threads EXCEPT !.w.pc = "Write"]
    /\ out' = <<>>
    /\ UNCHANGED <<gnodes, captureID, registry, captures, isMaster, tasks,
                   pendingStart, failed, last, hist, tg, trav>>

\* o.graph.RLock() of onCaptureAdded.  The goroutine the handler may
\* start has room: none can be started by another thread meanwhile.
onCaptureAdded_RLock ==
    /\ threads.w.pc = "GraphLock"
    /\ threads.w.op = "add"
    /\ CanRLock
    /\ BagCardinality(tasks) < MaxTasks
    /\ threads' = [threads EXCEPT !.graphR = @ \cup {Watcher}, !.w.pc = "Write"]
    /\ out' = <<>>
    /\ UNCHANGED <<gnodes, captureID, registry, captures, isMaster, tasks,
                   pendingStart, failed, last, hist, tg, trav>>

\* o.graph.Lock() of onCaptureDeleted.
onCaptureDeleted_GraphLock ==
    /\ threads.w.pc = "GraphLock"
    /\ threads.w.op = "delete"
    /\ CanLock
    /\ threads' = [threads EXCEPT !.graphW = Watcher, !.w.pc = "Write"]
    /\ out' = <<>>
    /\ UNCHANGED <<gnodes, captureID, registry, captures, isMaster, tasks,
                   pendingStart, failed, last, hist, tg, trav>>

\* The body of onCaptureAdded: o.captures[capture.UUID] = capture, then
\* the query is evaluated and, when it resolves to something, a
\* registerProbes goroutine is started.
onCaptureAdded_Insert ==
    LET res == applyGremlinExpr(threads.w.query, gnodes)
    IN /\ threads.w.pc = "Write"
       /\ threads.w.op = "add"
       /\ captures' = [captures EXCEPT ![threads.w.capture] = threads.w.query]
       /\ tasks' = IF Len(res) > 0
                   THEN tasks (+) SetToBag({SpawnTask(threads.w.capture, res, "api")})
                   ELSE tasks
       /\ threads' = [threads EXCEPT !.w.pc = "Unlock",
                                     !.stopped = @ \ {threads.w.capture}]
       /\ out' = <<>>
       /\ UNCHANGED <<gnodes, captureID, registry, isMaster,
                      pendingStart, failed, last, hist, tg, trav>>

\* The body of onCaptureDeleted up to its loop: delete(o.captures,
\* capture.UUID), then the query is evaluated; its nodes are those the
\* loop over res.Values() will visit.
onCaptureDeleted_Delete ==
    LET ns == ResultNodes(applyGremlinExpr(threads.w.query, gnodes))
    IN /\ threads.w.pc = "Write"
       /\ threads.w.op = "delete"
       /\ captures' = [captures EXCEPT ![threads.w.capture] = NoQuery]
       /\ threads' = [threads EXCEPT !.w.pc = IF ns = <<>> THEN "Unlock" ELSE "Send",
                                     !.w.nodes = ns]
       /\ out' = <<>>
       /\ UNCHANGED <<gnodes, captureID, registry, isMaster, tasks,
                      pendingStart, failed, last, hist, tg, trav>>

\* onCaptureDeleted, one iteration of the loop: unregisterProbe sends
\* CaptureStop for the next node; ok is the result of SendWSMessageTo.
onCaptureDeleted_Send(ok) ==
    LET ns == threads.w.nodes
        over == Len(ns) = 1
    IN /\ threads.w.pc = "Send"
       /\ out' = <<unregisterProbe(Head(ns), ok)>>
       /\ threads' = [threads EXCEPT
                        !.w.nodes = Tail(ns),
                        !.w.pc = IF over THEN "Unlock" ELSE "Send",
                        !.stopped = IF over THEN @ \cup {threads.w.capture} ELSE @]
       /\ UNCHANGED <<gnodes, captureID, registry, captures, isMaster, tasks,
                      pendingStart, failed, last, hist, tg, trav>>

\* The deferred calls of the two handlers: the graph lock is released,
\* then o.RWMutex.
Handler_Unlock ==
    /\ threads.w.pc = "Unlock"
    /\ threads' = [threads EXCEPT !.graphW = IF @ = Watcher THEN NoThread ELSE @,
                                  !.graphR = @ \ {Watcher},
                                  !.mutex = NoThread,
                                  !.w = IdleThreads.w]
    /\ out' = <<>>
    /\ UNCHANGED <<gnodes, captureID, registry, captures, isMaster, tasks,
                   pendingStart, failed, last, hist, tg, trav>>

\* A thread takes the write lock of the graph and mutates it: node n is
\* added, or its Capture/ID is set to cid or removed.  The goroutines the
\* listener will start have room.
Graph_Mutate(n, cid) ==
    /\ threads.m.pc = "idle"
    /\ CanLock
    /\ n \in gnodes => captureID[n] # cid
    /\ BagCardinality(tasks) + Cardinality(Resolving(gnodes \cup {n})) <= MaxTasks
    /\ gnodes' = gnodes \cup {n}
    /\ captureID' = [captureID EXCEPT ![n] = cid]
    /\ threads' = [threads EXCEPT !.graphW = Mutator, !.m.pc = "listen"]
    /\ out' = <<>>
    /\ UNCHANGED <<registry, captures, isMaster, tasks,
                   pendingStart, failed, last, hist, tg, trav>>

\* onNodeEvent taking o.RWMutex around its loop.
onNodeEvent_Locked ==
    /\ threads.m.pc = "listen"
    /\ threads.mutex = NoThread
    /\ threads' = [threads EXCEPT
                     !.m = IF isMaster /\ Resolving(gnodes) # {}
                           THEN [pc |-> "iterate", rest |-> Resolving(gnodes)]
                           ELSE [pc |-> "unlock", rest |-> {}]]
    /\ out' = <<>>
    /\ UNCHANGED <<gnodes, captureID, registry, captures, isMaster, tasks,
                   pendingStart, failed, last, hist, tg, trav>>

\* The listener is called (OnNodeAdded, OnNodeUpdated): onNodeEvent
\* returns when not master, else starts to range over o.captures.  rest
\* holds the captures of the loop that resolve to something.
onNodeEvent_Begin ==
    /\ threads.m.pc = "listen"
    /\ threads' = [threads EXCEPT
                     !.m = IF isMaster /\ Resolving(gnodes) # {}
                           THEN [pc |-> "iterate", rest |-> Resolving(gnodes)]
                           ELSE [pc |-> "unlock", rest |-> {}]]
    /\ out' = <<>>
    /\ UNCHANGED <<gnodes, captureID, registry, captures, isMaster, tasks,
                   pendingStart, failed, last, hist, tg, trav>>

\* onNodeEvent, one iteration of the loop over o.captures (in the order
\* of the Go map, any): the goroutine of capture c is started.
onNodeEvent_Iterate(c) ==
    /\ threads.m.pc = "iterate"
    /\ c \in threads.m.rest
    /\ tasks' = tasks (+) SetToBag({SpawnTask(c, applyGremlinExpr(captures[c], gnodes),
                                              "graph")})
    /\ threads' = [threads EXCEPT
                     !.m.rest = @ \ {c},
                     !.m.pc = IF threads.m.rest = {c} THEN "unlock" ELSE "iterate"]
    /\ out' = <<>>
    /\ UNCHANGED <<gnodes, captureID, registry, captures, isMaster,
                   pendingStart, failed, last, hist, tg, trav>>

\* The mutating thread releases the write lock of the graph.
Graph_Unlock ==
    /\ threads.m.pc = "unlock"
    /\ threads' = [threads EXCEPT !.graphW = NoThread, !.m = IdleThreads.m]
    /\ out' = <<>>
    /\ UNCHANGED <<gnodes, captureID, registry, captures, isMaster, tasks,
                   pendingStart, failed, last, hist, tg, trav>>

\* registerProbes: o.graph.RLock() before a node is looked at.
registerProbes_RLock(t) ==
    /\ t \in Running
    /\ t.pc = "rlock"
    /\ CanRLock
    /\ threads' = [threads EXCEPT !.graphR = @ \cup {TaskId(t)}]
    /\ tasks' = (tasks (-) SetToBag({t})) (+) SetToBag({[t EXCEPT !.pc = "check"]})
    /\ out' = <<>>
    /\ UNCHANGED <<gnodes, captureID, registry, captures, isMaster,
                   pendingStart, failed, last, hist, tg, trav>>

\* registerProbes: the test of Capture/ID under the read lock, then
\* o.graph.RUnlock(): the goroutine returns when the node is bound.
registerProbes_Check(t) ==
    /\ t \in Running
    /\ t.pc = "check"
    /\ threads' = [threads EXCEPT !.graphR = @ \ {TaskId(t)}]
    /\ tasks' = IF AlreadyBound(TaskNode(t))
                THEN tasks (-) SetToBag({t})
                ELSE (tasks (-) SetToBag({t})) (+) SetToBag({[t EXCEPT !.pc = "send"]})
    /\ out' = <<>>
    /\ UNCHANGED <<gnodes, captureID, registry, captures, isMaster,
                   pendingStart, failed, last, hist, tg, trav>>

\* registerProbes: registerProbe sends CaptureStart for the node; the
\* loops go on with the next node.
registerProbes_Send(t, ok) ==
    LET n == TaskNode(t)
        np == NextPos(t)
        over == np.i > Len(t.res)
    IN /\ t \in Running
       /\ t.pc = "send"
       /\ out' = <<Directed("CaptureStart", n, t.capture, Host(n), ok)>>
       /\ tasks' = IF over THEN tasks (-) SetToBag({t})
                   ELSE (tasks (-) SetToBag({t}))
                          (+) SetToBag({[t EXCEPT !.i = np.i, !.j = np.j, !.pc = "rlock"]})
       /\ UNCHANGED <<gnodes, captureID, registry, captures, isMaster,
                      pendingStart, failed, last, hist, tg, trav, threads>>

\* NewOnDemandProbeClient and Start: o.captures is what the registry
\* holds; no handler runs yet.  The election result is any, and stays.
InitThreads ==
    /\ gnodes = {}
    /\ captureID = [n \in Nodes |-> NoCapture]
    /\ registry \in [ThreadCaptures -> ThreadQueries \cup {NoQuery}]
    /\ captures = registry
    /\ isMaster \in BOOLEAN
    /\ tasks = EmptyBag
    /\ pendingStart = {}
    /\ failed = {}
    /\ out = <<>>
    /\ last = NoStep
    /\ hist = FALSE
    /\ tg = [r \in Runs |-> EmptyGraph]
    /\ trav = IdleTraversal
    /\ threads = IdleThreads

\* The steps of the watcher thread once its handler has started.
WatcherStep ==
    \/ Handler_Lock
    \/ onCaptureAdded_RLock
    \/ onCaptureDeleted_GraphLock
    \/ onCaptureAdded_Insert
    \/ onCaptureDeleted_Delete
    \/ \E ok \in BOOLEAN : onCaptureDeleted_Send(ok)
    \/ Handler_Unlock

\* The steps of the mutating thread once it holds the graph lock.
MutatorStep ==
    \/ onNodeEvent_Begin
    \/ \E c \in ThreadCaptures : onNodeEvent_Iterate(c)
    \/ Graph_Unlock

\* The steps of the goroutine whose identifier is id.
TaskStep(id) ==
    \E t \in Running :
       /\ t.id = id
       /\ \/ registerProbes_RLock(t)
          \/ registerProbes_Check(t)
          \/ \E ok \in BOOLEAN : registerProbes_Send(t, ok)

NextThreads ==
    \/ \E a \in AddActions \cup DelActions, c \in ThreadCaptures, q \in ThreadQueries :
          onAPIWatcherEvent(a, c, q)
    \/ \E n \in ThreadNodes, cid \in ThreadCaptures \cup {NoCapture} : Graph_Mutate(n, cid)
    \/ WatcherStep
    \/ MutatorStep
    \/ \E id \in 1..MaxTasks : TaskStep(id)

SpecThreads == InitThreads /\ [][NextThreads]_vars

\* The Go scheduler runs every runnable thread, and a thread waiting for a
\* lock gets it once it is free often enough (sync.Mutex and sync.RWMutex
\* do not starve a waiter).
SpecThreadsFair ==
    /\ SpecThreads
    /\ SF_vars(WatcherStep)
    /\ SF_vars(MutatorStep)
    /\ \A id \in 1..MaxTasks : SF_vars(TaskStep(id))

(***************************************************************************)
(* A query: steps chained one after the other from G.                      *)
(***************************************************************************)
\* The step contexts a query may run with (the parser of the query sets
\* currentStepContext).
Ranges == {NoRange, PaginationRange(0, 2), PaginationRange(1, 3)}

\* The argument lists the steps are called with.
VArgs == {<<>>, <<Str("a")>>, <<Str("zz")>>, <<Int64(1)>>, <<Str("Type"), Str("host")>>}
HasArgs ==
    {<<>>, <<Str("Name")>>, <<Str("Type"), Str("host")>>,
     <<Str("RelationType"), Str("layer2")>>,
     <<Str("MTU"), Outside(Int64(2), Int64(2))>>,
     <<Str("MTU"), Outside(Int64(3), Int64(1))>>,
     <<Str("MTU"), Within(<<Int64(1), Int64(3)>>)>>,
     <<Str("MTU"), Without(<<Int64(1), Int64(3)>>)>>,
     <<Str("Name"), Within(<<Str("n1"), Int64(3)>>)>>,
     <<Str("Name"), Without(<<Str("l")>>)>>,
     <<Str("MTU"), Lt(Str("x"))>>,
     <<Str("Name"), Ne(Str("zz"))>>}
EdgeArgs == {<<>>, <<Str("Type"), Str("host")>>, <<Str("RelationType"), Str("layer2")>>,
             <<Str("Type")>>}
DedupArgs ==
    {<<>>, <<Str("Name")>>, <<Str("Name"), Str("Type")>>,
     <<Str("Name"), Str("RelationType")>>, <<Int64(1)>>}
RangeArgs ==
    {<<Int64(from), Int64(to)>> : from \in {-1, 0, 1}, to \in {0, 1, 2, 3}}
      \cup {<<Int64(0)>>, <<Str("x"), Int64(1)>>}
LimitArgs == {<<Int64(n)>> : n \in {0, 1, 2, 3}} \cup {<<>>}
SumArgs == {<<Str("MTU")>>, <<>>, <<Int64(1)>>}
PropertyValuesArgs == {<<Str("MTU")>>, <<Str("Name")>>, <<>>, <<Int64(1)>>}
KeyOrders == {<<"Type", "Name", "MTU">>, <<"MTU", "Name", "Type">>}
PathTargets == {<<NewTermStringFilter("Type", "netns")>>,
                <<NewTermStringFilter("Type", "ovsport")>>}

\* The step `st` returned by the call op(args) becomes the current one.
Chain(op, args, st) ==
    /\ trav.depth < MaxSteps
    /\ trav.step.kind # "panic"
    /\ trav' = [step |-> st, depth |-> trav.depth + 1, op |-> op, args |-> args,
               prevError |-> trav.step.error]
    /\ UNCHANGED <<gnodes, captureID, registry, captures, isMaster, tasks,
                   pendingStart, failed, out, last, hist, tg, threads>>

Query_Context(at, ok) ==
    /\ trav.step.kind = "G"
    /\ Chain("Context", <<Str(at)>>, GraphTraversal_Context(trav.step, at, ok))

Query_V(s) ==
    /\ trav.step.kind = "G"
    /\ Chain("V", s, GraphTraversal_V(trav.step, s))

Query_Has(s) ==
    /\ trav.step.kind \in {"V", "E"}
    /\ Chain("Has", s, IF trav.step.kind = "V" THEN GraphTraversalV_Has(trav.step, s)
                       ELSE GraphTraversalE_Has(trav.step, s))

Query_Out(s) ==
    /\ trav.step.kind = "V"
    /\ Chain("Out", s, GraphTraversalV_Out(trav.step, s))

Query_In(s) ==
    /\ trav.step.kind = "V"
    /\ Chain("In", s, GraphTraversalV_In(trav.step, s))

Query_Both(s) ==
    /\ trav.step.kind = "V"
    /\ Chain("Both", s, GraphTraversalV_Both(trav.step, s))

Query_OutE(s) ==
    /\ trav.step.kind = "V"
    /\ Chain("OutE", s, GraphTraversalV_OutE(trav.step, s))

Query_InE(s) ==
    /\ trav.step.kind = "V"
    /\ Chain("InE", s, GraphTraversalV_InE(trav.step, s))

Query_InV(s) ==
    /\ trav.step.kind = "E"
    /\ Chain("InV", s, GraphTraversalE_InV(trav.step, s))

Query_OutV(s) ==
    /\ trav.step.kind = "E"
    /\ Chain("OutV", s, GraphTraversalE_OutV(trav.step, s))

\* Dedup of a step of any kind that has one.
DedupOf(st, s) ==
    CASE st.kind = "V" -> GraphTraversalV_Dedup(st, s)
      [] st.kind = "E" -> GraphTraversalE_Dedup(st, s)
      [] OTHER -> GraphTraversalValue_Dedup(st)

Query_Dedup(s) ==
    /\ trav.step.kind \in {"V", "E", "Value"}
    /\ Chain("Dedup", s, DedupOf(trav.step, s))

Query_Range(s) ==
    /\ trav.step.kind \in {"V", "E"}
    /\ Chain("Range", s, IF trav.step.kind = "V" THEN GraphTraversalV_Range(trav.step, s)
                         ELSE GraphTraversalE_Range(trav.step, s))

Query_Limit(s) ==
    /\ trav.step.kind \in {"V", "E"}
    /\ Chain("Limit", s, IF trav.step.kind = "V" THEN GraphTraversalV_Limit(trav.step, s)
                         ELSE GraphTraversalE_Limit(trav.step, s))

Query_Count ==
    /\ trav.step.kind \in {"V", "E"}
    /\ Chain("Count", <<>>, IF trav.step.kind = "V" THEN GraphTraversalV_Count(trav.step)
                            ELSE GraphTraversalE_Count(trav.step))

Query_Sum(s) ==
    /\ trav.step.kind = "V"
    /\ Chain("Sum", s, GraphTraversalV_Sum(trav.step, s))

Query_PropertyValues(s) ==
    /\ trav.step.kind = "V"
    /\ Chain("PropertyValues", s, GraphTraversalV_PropertyValues(trav.step, s))

Query_PropertyKeys(ord) ==
    /\ trav.step.kind = "V"
    /\ Chain("PropertyKeys", <<>>, GraphTraversalV_PropertyKeys(trav.step, ord))

Query_ShortestPathTo(m) ==
    /\ trav.step.kind = "V"
    /\ Chain("ShortestPathTo", <<>>, GraphTraversalV_ShortestPathTo(trav.step, m, <<>>))

\* NewGraphTraversal(g) with the step context of the query; nothing else
\* is running.
InitQuery ==
    /\ \E g \in Graphs, r \in Ranges :
          trav = [IdleTraversal EXCEPT !.step = [NewGraphTraversal(g) EXCEPT !.gt.ctx = r]]
    /\ gnodes = {}
    /\ captureID = [n \in Nodes |-> NoCapture]
    /\ registry = [c \in Captures |-> NoQuery]
    /\ captures = registry
    /\ isMaster = FALSE
    /\ tasks = EmptyBag
    /\ pendingStart = {}
    /\ failed = {}
    /\ out = <<>>
    /\ last = NoStep
    /\ hist = FALSE
    /\ tg = [r \in Runs |-> EmptyGraph]
    /\ threads = IdleThreads

NextQuery ==
    \/ \E at \in Instants, ok \in BOOLEAN : Query_Context(at, ok)
    \/ \E s \in VArgs : Query_V(s)
    \/ \E s \in HasArgs : Query_Has(s)
    \/ \E s \in EdgeArgs : Query_Out(s)
    \/ \E s \in EdgeArgs : Query_In(s)
    \/ \E s \in EdgeArgs : Query_Both(s)
    \/ \E s \in EdgeArgs : Query_OutE(s)
    \/ \E s \in EdgeArgs : Query_InE(s)
    \/ \E s \in EdgeArgs : Query_InV(s)
    \/ \E s \in EdgeArgs : Query_OutV(s)
    \/ \E s \in DedupArgs : Query_Dedup(s)
    \/ \E s \in RangeArgs : Query_Range(s)
    \/ \E s \in LimitArgs : Query_Limit(s)
    \/ Query_Count
    \/ \E s \in SumArgs : Query_Sum(s)
    \/ \E s \in PropertyValuesArgs : Query_PropertyValues(s)
    \/ \E ord \in KeyOrders : Query_PropertyKeys(ord)
    \/ \E m \in PathTargets : Query_ShortestPathTo(m)

SpecQuery == InitQuery /\ [][NextQuery]_vars

(***************************************************************************)
(* Properties of the orchestrator.                                         *)
(***************************************************************************)
\* The CaptureStart messages among those of the last step.
Starts == {k \in DOMAIN out : out[k].type = "CaptureStart"}

\* C1 (at-most-one probe): no CaptureStart for a node n and a capture C is
\* issued while n carries Capture/ID = C.
C1_AtMostOneProbe ==
    \A k \in Starts : captureID[out[k].node] # out[k].capture

\* C2 (leadership quiescence): while IsMaster() is false no step hands a
\* message of any type to the bus, be it a handler or a goroutine started
\* earlier.
C2_LeadershipQuiescence == ~isMaster => out = <<>>

\* The nodes of the result of a goroutine that has just ended which have
\* no Capture/ID.
UnboundOf(res) == {n \in SeqRange(ResultNodes(res)) : ~AlreadyBound(n)}

\* C3: when the registerProbes goroutine of a capture create/update event
\* ends, every node of the query result that does not carry Capture/ID has
\* been sent exactly one CaptureStart, whatever the other nodes of the
\* result; each CaptureStart carries the node, the capture and goes to the
\* node's host.
C3_CreateStartsEveryUnboundNode ==
    /\ (last.ended /\ last.origin = "api") =>
          \A n \in UnboundOf(last.res) : Occurrences(last.sent, n) = 1
    /\ (last.op = "send" /\ last.origin = "api") =>
          /\ Len(out) = 1
          /\ out[1].type = "CaptureStart"
          /\ out[1].capture = last.capture
          /\ out[1].to = Host(out[1].node)

\* C4: when the registerProbes goroutine of a graph event ends, every node
\* of the result that is not bound (the new node B2 next to the bound B)
\* has been sent exactly one CaptureStart.
C4_GraphEventStartsNewNodes ==
    (last.ended /\ last.origin = "graph") =>
       \A n \in UnboundOf(last.res) : Occurrences(last.sent, n) = 1

\* The step was a delete or expire event handled while leader.
DeleteHandled == out # <<>> /\ out[1].type = "CaptureDeleted" /\ isMaster

\* C5: a delete/expire event handled while leader removes the capture from
\* the mapping and sends one CaptureStop, carrying the node and directed
\* to the node's host, for every node the capture's query resolves to
\* (every node of every path), whether or not the other sends succeed.
C5_DeleteStopsEveryNode ==
    DeleteHandled =>
       LET ns == ResultNodes(Resolve(out[1].query, gnodes))
       IN /\ captures[out[1].capture] = NoQuery
          /\ Len(out) = 1 + Len(ns)
          /\ \A k \in DOMAIN ns :
                /\ out[k + 1].type = "CaptureStop"
                /\ out[k + 1].node = ns[k]
                /\ out[k + 1].to = Host(ns[k])

\* Witness of C5: a delete handled while leader of a capture whose query
\* resolves to paths, where the first CaptureStop was not delivered and
\* further ones were sent.
C5_Witness ==
    /\ DeleteHandled
    /\ out[1].query = "SP"
    /\ Len(out) >= 4
    /\ ~out[2].ok
    /\ out[4].ok

\* C6: once the registry has delivered the delete (or expire) event of a
\* capture, no graph event starts registerProbes for it on a result whose
\* first node is unbound, i.e. causes a CaptureStart for it.
C6_NoStartAfterDelete ==
    last.op = "graph" =>
       \A c \in last.spawned :
          registry[c] = NoQuery =>
             AlreadyBound(ResultNodes(Resolve(captures[c], gnodes))[1])

\* C7: a CaptureStart that could not be delivered is retried by the next
\* graph event: when the goroutine of a graph event ends, every node of
\* its result that still lacks Capture/ID and whose CaptureStart for this
\* capture had failed has been sent a CaptureStart by it.
C7_FailedStartRetried ==
    (last.ended /\ last.origin = "graph") =>
       \A n \in UnboundOf(last.res) :
          <<n, last.capture>> \in failed => n \in SeqRange(last.sent)

\* C8: a graph event handled while leader reconciles exactly the captures
\* the registry has announced and not deleted, whether their events came
\* while leader or not: it starts registerProbes for each of them that
\* resolves to something, and for no other.
C8_LeaderReconcilesRegistry ==
    (last.op = "graph" /\ isMaster) =>
       last.spawned = {c \in Captures : registry[c] # NoQuery
                                         /\ Len(Resolve(registry[c], gnodes)) > 0}

(***************************************************************************)
(* Properties of the TID mapper.                                           *)
(***************************************************************************)
\* The graph of a run holds every node, with all its metadata, and every edge.
Complete(g) ==
    /\ \A n \in TNodes : g.nodes[n].present
                          /\ \A k \in TargetKeys(n) : g.nodes[n].md[k] # Empty
    /\ g.edges = TEdges

\* C9 (TID determinism): two runs that were told the same nodes, metadata
\* and edges in different orders give every node the same TID.
C9_TIDDeterminism ==
    (Complete(tg[1]) /\ Complete(tg[2])) =>
       \A n \in TNodes : tg[1].nodes[n].md["TID"] = tg[2].nodes[n].md["TID"]

\* The host node of the graph.
HostNode == "h"

\* C10: a netns node with a Path and a TID has
\* TID = UUIDv5(OID, hostID + Path + "netns"), hostID being the ID of its
\* host node, also when it has a Name and an ownership edge from its host.
C10_NetnsTID ==
    \A n \in TNodes :
       LET md == tg[1].nodes[n].md IN
       (tg[1].nodes[n].present /\ md["Type"] = Lit("netns")
          /\ md["Path"] # Empty /\ md["TID"] # Empty)
       => md["TID"] = UUIDv5(Lit(HostNode) \o md["Path"] \o Lit("netns"))

\* The TID of every node of the graph of run r.
TIDs(r) == [n \in TNodes |-> tg[r].nodes[n].md["TID"]]

\* C11: between two events, every node that has Name and a Type that is
\* not one of the root types, and whose ownership parent has a TID, has a
\* TID itself, whatever the order in which the edge was added and the
\* parent obtained its TID, at any depth of the ownership chain.
C11_DescendantsHaveTID ==
    \A e \in tg[1].edges :
       (/\ e.rel = "ownership"
        /\ GetFieldString(tg[1], e.child, "Type")
              \notin {Empty, Lit("host"), Lit("netns"), Lit("ovsport")}
        /\ GetFieldString(tg[1], e.child, "Name") # Empty
        /\ GetFieldString(tg[1], e.parent, "TID") # Empty)
       => GetFieldString(tg[1], e.child, "TID") # Empty

\* C12: a node event or an edge event delivered again, the nodes, metadata
\* and edges of the graph being unchanged by the delivery, recomputes the
\* same TID: every node that has a TID keeps it.
C12_Idempotent ==
    [][((\E n \in TNodes : TID_OnNodeUpdatedAgain(1, n))
          \/ (\E e \in TEdges : TID_OnEdgeUpdated(1, e)))
       => \A n \in TNodes : TIDs(1)[n] # Empty => TIDs(1)'[n] = TIDs(1)[n]]_vars

\* C13: after a node event on a node that had no TID, has Type and Name
\* and two or more ownership parents which all have a TID, the node has
\* the TID UUIDv5(parent.TID + Name + Type) of one of them, the first.
C13_TwoParentsUseFirst ==
    [][\A n \in TNodes :
         ((\E k \in Keys : TID_OnNodeUpdated(1, n, k))
           /\ GetFieldString(tg[1], n, "TID") = Empty
           /\ GetFieldString(tg[1], n, "Probe") # Lit("fabric")
           /\ GetFieldString(tg[1]', n, "Type") \notin {Empty, Lit("host"), Lit("netns"), Lit("ovsport")}
           /\ GetFieldString(tg[1]', n, "Name") # Empty
           /\ Cardinality(LookupParents(tg[1], n)) >= 2
           /\ \A p \in LookupParents(tg[1], n) : GetFieldString(tg[1], p, "TID") # Empty)
         => GetFieldString(tg[1]', n, "TID") \in
               {UUIDv5(GetFieldString(tg[1], p, "TID")
                         \o GetFieldString(tg[1]', n, "Name")
                         \o GetFieldString(tg[1]', n, "Type")) : p \in LookupParents(tg[1], n)}]_vars

(***************************************************************************)
(* Properties of the traversal engine.                                     *)
(***************************************************************************)
\* C14 (sticky error): every step chained after a step that carries an
\* error returns a step that carries that same error, and its call did not
\* consult the graph.
C14_StickyError ==
    [][trav.step.error # NoError
         => /\ trav'.step.kind # "panic"
            /\ trav'.step.error = trav.step.error
            /\ ~trav'.step.calls]_vars

\* C15: Values() of a step that carries an error is empty, whatever the
\* kind of the step.
C15_ErrorValuesEmpty ==
    (trav.step.error # NoError /\ trav.step.kind # "panic") => Values(trav.step) = <<>>

\* The elements of q at the positions from <= i < to, counted from 0.
Slice(q, from, to) ==
    LET idx == SetToSeq({i \in DOMAIN q : from <= i - 1 /\ i - 1 < to})
    IN [k \in DOMAIN idx |-> q[idx[k]]]

\* The arguments are two integers, the first not negative.
IsRange(s) == Len(s) = 2 /\ s[1].m = "int" /\ s[2].m = "int" /\ s[1].i >= 0

C17_DedupIdempotent ==
    (trav.step.kind \in {"V", "E", "Value"} /\ trav.step.error = NoError)
    => \A s \in DedupArgs :
          DedupOf(trav.step, s).error = NoError
          => Values(DedupOf(DedupOf(trav.step, s), s)) = Values(DedupOf(trav.step, s))

\* The metadata of an element of a node step or of an edge step.
MetadataOf(st, x) ==
    IF st.kind = "V" THEN NodeMetadata(st.gt.Graph, x) ELSE EdgeMetadata(st.gt.Graph, x)

\* The visited key a Dedup by keys gives an element: the tuple of its
\* values at all the keys, its identifier when there are no keys.
KeyTuple(st, x, keys) ==
    IF Len(keys) = 0 THEN <<Str(x)>>
    ELSE [k \in DOMAIN keys |-> GetField(MetadataOf(st, x), keys[k].s)]

\* The element has every one of the keys.
HasAllKeys(st, x, keys) == \A k \in DOMAIN keys : keys[k].s \in DOMAIN MetadataOf(st, x)

\* The elements of st that have all the keys and are the first with their
\* key tuple, in the order of st.
FirstOfEachTuple(st, keys) ==
    LET q == st.elems
        idx == SetToSeq({i \in DOMAIN q :
                           /\ HasAllKeys(st, q[i], keys)
                           /\ ~\E j \in 1..(i - 1) :
                                 /\ HasAllKeys(st, q[j], keys)
                                 /\ KeyTuple(st, q[j], keys) = KeyTuple(st, q[i], keys)})
    IN [k \in DOMAIN idx |-> q[idx[k]]]

\* C18: without a pagination range, Dedup(keys) of a node or edge step
\* keeps, in input order, the first element of each tuple of values at all
\* the keys and drops the elements lacking a key; without keys it keeps the
\* first occurrence of each identifier.
C18_DedupKeyTuple ==
    [][\A s \in DedupArgs :
         (/\ Query_Dedup(s)
          /\ trav.step.kind \in {"V", "E"}
          /\ trav.step.error = NoError
          /\ ~trav.step.gt.ctx.set
          /\ \A k \in DOMAIN s : s[k].m = "str")
         => /\ trav'.step.error = NoError
            /\ trav'.step.elems = FirstOfEachTuple(trav.step, s)]_vars

\* C19: without a pagination range, Has(k, Outside(a, b)) on a node step
\* keeps exactly the nodes whose integer value x at k has x < a or x > b.
C19_OutsideKeepsOutside ==
    [][\A s \in HasArgs :
         (/\ Query_Has(s)
          /\ Len(s) = 2
          /\ s[2].m = "Outside"
          /\ trav.step.kind = "V"
          /\ trav.step.error = NoError
          /\ ~trav.step.gt.ctx.set)
         => /\ trav'.step.error = NoError
            /\ trav'.step.elems =
                  Select(trav.step.elems,
                         {n \in SeqRange(trav.step.elems) :
                            LET x == GetField(MetadataOf(trav.step, n), s[1].s)
                            IN x.m = "int" /\ (x.i < s[2].list[1].i \/ x.i > s[2].list[2].i)})]_vars

\* The value is one of the list.
Member(x, L) == \E k \in DOMAIN L : L[k] = x

\* C20: without a pagination range, Has(k, Within(L)) and Has(k, Without(L))
\* on a node or edge step yield no error; of the elements that have key k,
\* Within keeps those whose value is in L and Without those whose value is
\* not in L.
C20_WithinWithout ==
    [][\A s \in HasArgs :
         (/\ Query_Has(s)
          /\ Len(s) = 2
          /\ s[2].m \in {"Within", "Without"}
          /\ trav.step.kind \in {"V", "E"}
          /\ trav.step.error = NoError
          /\ ~trav.step.gt.ctx.set)
         => /\ trav'.step.error = NoError
            /\ \A x \in SeqRange(trav.step.elems) :
                  s[1].s \in DOMAIN MetadataOf(trav.step, x)
                  => ((x \in SeqRange(trav'.step.elems))
                        <=> (Member(MetadataOf(trav.step, x)[s[1].s], s[2].list)
                               <=> s[2].m = "Within"))]_vars

\* C21: on three hosts fully connected by layer2 edges, whatever the order
\* of the edges, V().Has("Type", "host").Both("RelationType", "layer2")
\* followed by Dedup() holds exactly the three hosts, each once.
C21_BothThroughMatchingEdges ==
    [][(/\ Query_Both(<<Str("RelationType"), Str("layer2")>>)
        /\ trav.op = "Has"
        /\ trav.args = <<Str("Type"), Str("host")>>
        /\ trav.step.error = NoError
        /\ trav.step.gt.Graph \in Triangles
        /\ ~trav.step.gt.ctx.set
        /\ trav.step.elems = NodesOf(trav.step.gt.Graph))
       => LET d == GraphTraversalV_Dedup(trav'.step, <<>>)
          IN /\ d.error = NoError
             /\ Len(d.elems) = 3
             /\ SeqRange(d.elems) = SeqRange(NodesOf(trav.step.gt.Graph))]_vars

\* The call op(s) on a step of graph g has a wrong argument type, a wrong
\* number of parameters, an odd key/value list or, for V(id), the
\* identifier of no node.
BadArguments(op, s, g) ==
    CASE op = "V" -> \/ Len(s) = 1 /\ (s[1].m # "str" \/ Graph_GetNode(g, s[1].s) = "nil")
                     \/ Len(s) > 1 /\ Len(s) % 2 = 1
      [] op = "Has" -> Len(s) = 0 \/ (Len(s) = 1 /\ s[1].m # "str")
                         \/ (Len(s) > 1 /\ Len(s) % 2 = 1)
      [] op = "Range" -> ~(Len(s) = 2 /\ s[1].m = "int" /\ s[2].m = "int")
      [] op = "Limit" -> ~(Len(s) = 1 /\ s[1].m = "int")
      [] op \in {"Sum", "PropertyValues"} -> ~(Len(s) = 1 /\ s[1].m = "str")
      [] op \in {"Out", "In", "Both", "OutE", "InE", "InV", "OutV"} -> Len(s) % 2 = 1
      [] OTHER -> FALSE

\* C22: a step called with bad arguments on a step without error returns a
\* step that carries an error and no element; the call always returns.
C22_BadArgumentsGiveError ==
    [][(/\ trav'.depth = trav.depth + 1
        /\ trav.step.error = NoError
        /\ BadArguments(trav'.op, trav'.args, trav.step.gt.Graph))
       => /\ trav'.step.kind # "panic"
          /\ trav'.step.error # NoError
          /\ Values(trav'.step) \in {<<>>, <<Nil>>}]_vars

C24_QueryPurity ==
    [][\A ord \in KeyOrders :
         (Query_PropertyKeys(ord) /\ trav.step.error = NoError)
         => \A again \in KeyOrders :
               Values(GraphTraversalV_PropertyKeys(trav.step, again)) = Values(trav'.step)]_vars

\* C25 (missing keys never match): Has(k, p), whatever the predicate p,
\* keeps no node and no edge that has no value at key k.
C25_MissingKeysNeverMatch ==
    [][\A s \in HasArgs :
         (/\ Query_Has(s)
          /\ Len(s) = 2
          /\ trav.step.kind \in {"V", "E"}
          /\ trav.step.error = NoError)
         => \A x \in SeqRange(trav'.step.elems) :
               s[1].s \in DOMAIN MetadataOf(trav.step, x)]_vars

(***************************************************************************)
(* Further properties of the orchestrator and of the TID mapper.           *)
(***************************************************************************)
\* C26: when registerProbes meets a node that has Capture/ID in a path of
\* the result, it stops for that path only: if paths remain, the goroutine
\* goes on with the first node of the next path.
C26_BoundNodeEndsItsPathOnly ==
    [][\A t \in Running :
         (/\ registerProbesCheck(t)
          /\ t.res[t.i].kind = "path"
          /\ AlreadyBound(TaskNode(t))
          /\ t.i < Len(t.res))
         => [t EXCEPT !.i = t.i + 1, !.j = 1] \in BagToSet(tasks')]_vars

\* C27: the mapper's callbacks call no mutating operation of the graph
\* while an event is dispatched: after OnNodeAdded, OnNodeUpdated,
\* OnEdgeAdded or OnEdgeUpdated has run, the TID of every node is the one
\* it had before the event.
C27_NoMutationInCallback == [][TIDs(1)' = TIDs(1)]_vars

\* C28: between two events, a node that is not a host, netns, ovsport or
\* fabric node, that has a TID and one ownership parent P, has
\* TID = UUIDv5(P.TID + Name + Type) for the TID P has now.
C28_TIDFollowsParent ==
    \A e \in tg[1].edges :
       (/\ e.rel = "ownership"
        /\ LookupParents(tg[1], e.child) = {e.parent}
        /\ GetFieldString(tg[1], e.child, "Type")
              \notin {Empty, Lit("host"), Lit("netns"), Lit("ovsport")}
        /\ GetFieldString(tg[1], e.child, "Probe") # Lit("fabric")
        /\ GetFieldString(tg[1], e.child, "TID") # Empty)
       => GetFieldString(tg[1], e.child, "TID") =
             UUIDv5(GetFieldString(tg[1], e.parent, "TID")
                      \o GetFieldString(tg[1], e.child, "Name")
                      \o GetFieldString(tg[1], e.child, "Type"))

(***************************************************************************)
(* Further properties of the traversal engine.                             *)
(***************************************************************************)
\* The steps that produce nodes or edges from candidates.
ProducingSteps == {"V", "Has", "Out", "In", "Both", "OutE", "InE", "InV", "OutV", "Dedup"}

\* C29: when the step context carries the pagination range [from, to), a
\* producing step called on a step without error emits at most to - from
\* elements.
C29_PaginationBound ==
    [][(/\ trav'.depth = trav.depth + 1
        /\ trav'.op \in ProducingSteps
        /\ trav.step.gt.ctx.set
        /\ trav.step.error = NoError
        /\ trav'.step.kind \in {"V", "E"})
       => Len(trav'.step.elems) <= trav.step.gt.ctx.to - trav.step.gt.ctx.from]_vars

\* C30: the output of ShortestPathTo on a node step without error holds at
\* most one path per source node, each path starts at a node of the input
\* and is not empty.
C30_OnePathPerSource ==
    [][(\E m \in PathTargets : Query_ShortestPathTo(m)) /\ trav.step.error = NoError
       => LET paths == trav'.step.elems
          IN /\ \A i \in DOMAIN paths :
                   Len(paths[i]) > 0 /\ paths[i][1] \in SeqRange(trav.step.elems)
             /\ \A i, j \in DOMAIN paths : paths[i][1] = paths[j][1] => i = j]_vars

(***************************************************************************)
(* Properties of the orchestrator's threads and locks.                     *)
(***************************************************************************)
\* The mutating thread is inside the loop of onNodeEvent over o.captures.
Reading == threads.m.pc = "iterate"

\* The watcher thread is at the insert of onCaptureAdded or at the delete
\* of onCaptureDeleted.
Writing == threads.w.pc = "Write"

\* C31: the iteration of onNodeEvent over the capture mapping never runs
\* while onCaptureAdded inserts into it or onCaptureDeleted deletes from it.
C31_NoReadOverlapsWrite == ~(Reading /\ Writing)

\* Witness of C31: onNodeEvent iterates over the mapping while a handler
\* of the watcher, holding o.RWMutex, waits for the graph lock in front of
\* its write.
C31_Witness ==
    /\ Reading
    /\ threads.w.pc = "GraphLock"
    /\ threads.mutex = Watcher

\* Thread th holds the lock of the graph, as writer or as reader.
HoldsGraphLock(th) == threads.graphW = th \/ th \in threads.graphR

\* o.RWMutex is taken before the graph lock, never while holding it, and
\* only by the handlers of the watcher.
LockOrder ==
    /\ threads.mutex \in {NoThread, Watcher}
    /\ HoldsGraphLock(Watcher) => threads.mutex = Watcher
    /\ threads.w.pc = "Lock" => ~HoldsGraphLock(Watcher)

\* C32: the handlers take o.RWMutex before the graph lock, nothing
\* requests o.RWMutex while holding the graph lock, the graph-event
\* handler requests neither, and every handler and every registerProbes
\* goroutine that has started eventually finishes.
C32_NoDeadlock ==
    /\ []LockOrder
    /\ (threads.w.pc # "idle") ~> (threads.w.pc = "idle")
    /\ (threads.m.pc # "idle") ~> (threads.m.pc = "idle")
    /\ \A id \in 1..MaxTasks :
          (\E t \in Running : t.id = id) ~> ~(\E t \in Running : t.id = id)

\* Witness of C32: the watcher holds o.RWMutex and waits for the graph
\* lock, which the mutating thread holds while running the listener, and a
\* goroutine waits for the graph lock too.
C32_Witness ==
    /\ threads.mutex = Watcher
    /\ threads.w.pc = "GraphLock"
    /\ threads.graphW = Mutator
    /\ \E t \in Running : t.pc = "rlock"

\* C33: no thread is at a directed send (CaptureStart, CaptureStop)
\* while it holds the graph lock.
C33_NoSendUnderGraphLock ==
    /\ threads.w.pc = "Send" => ~HoldsGraphLock(Watcher)
    /\ \A t \in Running : t.pc = "send" => ~HoldsGraphLock(TaskId(t))

\* C34: no CaptureStart is sent for a capture whose deletion has sent its
\* CaptureStop messages, also by a goroutine started before the deletion.
C34_NoStartAfterStops ==
    \A k \in Starts : out[k].capture \notin threads.stopped

\* C35: no CaptureStart of a capture is sent to a node that carries the
\* Capture/ID of another capture.
C35_BoundByAnyCapture ==
    \A k \in Starts : captureID[out[k].node] \in {NoCapture, out[k].capture}

====
